---- MODULE Spec2Model ----
(***************************************************************************)
(* A model of the Kuin front-end parser (src/kuin/parser.py, nodes.py).    *)
(*                                                                         *)
(* The parser is a pure function of its input text.  The grammar objects   *)
(* of parser.py are modelled as operators over (text, loc, doActions),     *)
(* evaluated the way the combinator library evaluates them: every element  *)
(* skips leading whitespace (preParse), an alternation (|) takes the first *)
(* alternative that does not raise ParseException, Optional / ZeroOrMore   *)
(* swallow ParseException only, FollowedBy / NotAny parse with actions     *)
(* switched off, and a parse action runs as soon as its element matched.   *)
(* Texts are strings, locations are 0-based offsets as in the source.      *)
(***************************************************************************)
EXTENDS Integers, Sequences, FiniteSets, TLC

VARIABLES text,     \* the input handed to the entry point
          entry,    \* "parse_expr" or "parse_stmt"
          pc,       \* "parse" while the descent runs, "done" after the call
          memo,     \* what each expression level returned at each offset so far
          result    \* what the call produced: a value, or the exception raised

vars == <<text, entry, pc, memo, result>>

(***************************************************************************)
(* Characters                                                              *)
(***************************************************************************)
Lower == {"a","b","c","d","e","f","g","h","i","j","k","l","m",
          "n","o","p","q","r","s","t","u","v","w","x","y","z"}
Upper == {"A","B","C","D","E","F","G","H","I","J","K","L","M",
          "N","O","P","Q","R","S","T","U","V","W","X","Y","Z"}
DecDigit == {"0","1","2","3","4","5","6","7","8","9"}
HexUpper == DecDigit \cup {"A","B","C","D","E","F"}
AlnumUpper == DecDigit \cup Upper
NameStart == Lower \cup Upper \cup {"_"}
NameChar == NameStart \cup DecDigit
\* Keyword.DEFAULT_KEYWORD_CHARS of the combinator library: alphanums + "_$"
KeywordChar == NameChar \cup {"$"}
\* the library's default whitespace characters
White == {" ", "\t", "\n", "\r"}

\* the character of s at 0-based offset i ("" past the end)
At(s, i) == IF i >= 0 /\ i < Len(s) THEN SubSeq(s, i + 1, i + 1) ELSE ""
\* s[a:b] of Python
Slice(s, a, b) == SubSeq(s, a + 1, b)
StartsWith(s, loc, lit) ==
    /\ loc + Len(lit) <= Len(s)
    /\ SubSeq(s, loc + 1, loc + Len(lit)) = lit

RECURSIVE ScanWhile(_, _, _)
\* the end of the longest run of characters of set cs starting at loc
ScanWhile(s, loc, cs) ==
    IF loc < Len(s) /\ At(s, loc) \in cs THEN ScanWhile(s, loc + 1, cs) ELSE loc

(***************************************************************************)
(* Values: Python objects the parse produces                               *)
(***************************************************************************)
PyNone == [k |-> "None"]
PyStr(v) == [k |-> "str", v |-> v]
PyInt(v) == [k |-> "int", v |-> v]
\* a float, kept exact as the fraction num / den
PyFloat(num, den) == [k |-> "float", num |-> num, den |-> den]
PyBool(v) == [k |-> "bool", v |-> v]
PyList(items) == [k |-> "list", items |-> items]
PyTuple(items) == [k |-> "tuple", items |-> items]

\* Python truth value of a value (bool(x)): nodes define no __len__/__nonzero__
Truthy(x) ==
    CASE x.k = "None"  -> FALSE
      [] x.k = "str"   -> x.v # ""
      [] x.k = "int"   -> x.v # 0
      [] x.k = "float" -> x.num # 0
      [] x.k = "bool"  -> x.v
      [] x.k = "list"  -> Len(x.items) > 0
      [] x.k = "tuple" -> Len(x.items) > 0
      [] OTHER         -> TRUE

(***************************************************************************)
(* Parse results                                                           *)
(*   st    : "ok", or the name of the exception raised                     *)
(*   loc   : the offset after the match (the offset of the failure)        *)
(*   toks  : the tokens matched (ParseResults' list)                       *)
(*   names : the named results, <<name, value>> in the order they were set *)
(***************************************************************************)
Ok(loc, toks, names) == [st |-> "ok", loc |-> loc, toks |-> toks, names |-> names]
Raise(exc, loc) == [st |-> exc, loc |-> loc, toks |-> <<>>, names |-> <<>>]
Fail(loc) == Raise("ParseException", loc)
IsOk(r) == r.st = "ok"

\* ParserElement.preParse: skip what the element ignores, then whitespace.
\* Sentences ... .ignore(Comment) hands the comment to every element of the
\* grammar outside a Combine (ws tells the two apart: a Combine makes its
\* elements leave whitespace and does not pass ignore() on to them); memo
\* keeps where the skipping ends for each offset of the text.
preParse(s, loc, ws) == IF ws THEN memo[<<"ignore", loc>>][TRUE].loc ELSE loc

\* And: e1 + e2, the second parsed where the first ended; tokens and names add up
Then(r, next(_)) ==
    IF ~IsOk(r) THEN r
    ELSE LET q == next(r.loc)
         IN  IF ~IsOk(q) THEN q
             ELSE Ok(q.loc, r.toks \o q.toks, r.names \o q.names)

\* MatchFirst: e1 | e2, the second tried only on ParseException
OrElse(r, alt) == IF r.st = "ParseException" THEN alt ELSE r

\* Optional(e): ParseException becomes an empty match at loc
Opt(r, loc) == IF r.st = "ParseException" THEN Ok(loc, <<>>, <<>>) ELSE r

\* FollowedBy(e) / tryParse: the caller evaluates e with actions off; a match
\* consumes nothing, and any failure is reported as ParseException
Lookahead(r, loc) == IF IsOk(r) THEN Ok(loc, <<>>, <<>>) ELSE Fail(loc)

\* NotAny(e)
NotAny(r, loc) == IF IsOk(r) THEN Fail(loc) ELSE Ok(loc, <<>>, <<>>)

\* Suppress(e): the match without its tokens
Suppress(r) == IF IsOk(r) THEN Ok(r.loc, <<>>, <<>>) ELSE r

\* Group(e): the tokens as one nested list; names stay inside the group
Group(r) == IF IsOk(r) THEN Ok(r.loc, <<PyList(r.toks)>>, <<>>) ELSE r

\* e.setResultsName(n) where the element yields one token: r[n] is that token;
\* an empty match sets no name
Named(r, n) ==
    IF IsOk(r) /\ Len(r.toks) > 0
    THEN Ok(r.loc, r.toks, r.names \o <<<<n, r.toks[1]>>>>)
    ELSE r

\* e.setResultsName(n) where the element saves its tokens as a list
NamedList(r, n) ==
    IF IsOk(r) /\ Len(r.toks) > 0
    THEN Ok(r.loc, r.toks, r.names \o <<<<n, PyList(r.toks)>>>>)
    ELSE r

\* the parse action replaces the tokens by its return value and drops the names
Returns(r, v) == Ok(r.loc, <<v>>, <<>>)

RECURSIVE SelectNames(_, _)
SelectNames(names, n) ==
    IF names = <<>> THEN <<>>
    ELSE (IF names[1][1] = n THEN <<names[1][2]>> ELSE <<>>)
         \o SelectNames(Tail(names), n)

HasName(r, n) == SelectNames(r.names, n) # <<>>
\* r[n] for a plain name: the last value set
Get(r, n) == LET vs == SelectNames(r.names, n) IN vs[Len(vs)]
\* r.get(n): None when the name is not set
GetOrNone(r, n) == IF HasName(r, n) THEN Get(r, n) ELSE PyNone
\* r.get(n) for a name declared with "*": every value set, in order
GetAllOrNone(r, n) == IF HasName(r, n) THEN PyList(SelectNames(r.names, n)) ELSE PyNone

(***************************************************************************)
(* Token primitives                                                        *)
(***************************************************************************)
Literal(lit, s, loc0, ws) ==
    LET loc == preParse(s, loc0, ws)
    IN  IF StartsWith(s, loc, lit) THEN Ok(loc + Len(lit), <<PyStr(lit)>>, <<>>)
        ELSE Fail(loc)

\* Keyword(lit): lit as a whole word
Keyword(lit, s, loc0, ws) ==
    LET loc == preParse(s, loc0, ws)
    IN  IF /\ StartsWith(s, loc, lit)
           /\ At(s, loc + Len(lit)) \notin KeywordChar
           /\ At(s, loc - 1) \notin KeywordChar
        THEN Ok(loc + Len(lit), <<PyStr(lit)>>, <<>>)
        ELSE Fail(loc)

\* oneOf(symbols): the library reorders the symbols so that a symbol is tried
\* before its own prefixes and then takes the first that matches at loc, i.e.
\* the longest symbol of the set that the text starts with
oneOf(symbols, s, loc0, ws) ==
    LET loc == preParse(s, loc0, ws)
        hit == {y \in symbols : StartsWith(s, loc, y)}
    IN  IF hit = {} THEN Fail(loc)
        ELSE LET best == CHOOSE y \in hit : \A z \in hit : Len(z) <= Len(y)
             IN  Ok(loc + Len(best), <<PyStr(best)>>, <<>>)

(***************************************************************************)
(* Elements parsed once per offset                                         *)
(***************************************************************************)
\* The elements whose results memo keeps, lowest first: Comment and the
\* skipping in front of an element, Name, ClassName and Type, then the cascade of parser.py's tmp_expr, each level built on the
\* one before it ("thisExpr" is the Forward inside make_unary_expr, which the
\* unary level wraps as Number | thisExpr)
Levels == <<"Comment", "ignore", "Name", "ClassName", "Type",
            "atom", "call", "index", "new", "thisExpr", "unary", "is", "cast",
            "mul", "add", "concat", "compare", "logical", "ternary", "assign">>
LevelIndex(level) == CHOOSE i \in 1..Len(Levels) : Levels[i] = level

\* What the element of a level returned at loc of the text under parse (s is
\* always text), with and without parse actions.  The descent of an element
\* into its sub-elements is a pure function of (level, loc, doActions), and a
\* level only ever descends into lower levels at the same offset or into any
\* level at a later offset, so the results are laid down from the end of the
\* text backwards, lowest level first.
tmp_expr(level, s, loc, act) == memo[<<level, loc>>][act]

(***************************************************************************)
(* Identifiers (parser.py, "識別子")                                       *)
(***************************************************************************)
\* KEYWORDS = oneOf([...]): matches wherever the text starts with a keyword
KEYWORDS == {"if", "elif", "else", "switch", "case", "default",
             "while", "for", "foreach", "try", "catch", "finally",
             "ifdef", "release", "debug", "block", "end",
             "break", "continue", "return", "do", "throw",
             "func", "class", "enum", "var", "const", "alias",
             "import", "assert", "true", "false"}

SymbolNode(symbol) == [k |-> "Symbol", symbol |-> symbol]

\* The backquote of SymbolNode.__repr__ (a TLA+ string cannot hold the
\* character U+0060 itself, so "^" stands for it)
Backquote == "^"

\* SymbolNode.parse: r[0] itself when it is a SymbolNode, else SymbolNode(r[0])
SymbolNode_parse(r, act) ==
    IF ~IsOk(r) \/ ~act THEN r
    ELSE IF r.toks[1].k = "Symbol" THEN Returns(r, r.toks[1])
    ELSE Returns(r, SymbolNode(r.toks[1].v))

\* Name = NotAny(KEYWORDS) + Regex('[A-Za-z_][0-9A-Za-z_]*'), SymbolNode.parse.
\* BlockName, CName, FName, VName, EName and ConstName are this same object.
Name_parseImpl(s, loc, act) ==
    LET notkw == NotAny(oneOf(KEYWORDS, s, loc, FALSE), loc)
        end == ScanWhile(s, loc + 1, NameChar)
    IN  IF ~IsOk(notkw) THEN notkw
        ELSE IF At(s, loc) \notin NameStart THEN Fail(loc)
        ELSE SymbolNode_parse(Ok(end, <<PyStr(Slice(s, loc, end))>>, <<>>), act)

\* Name where an element refers to it: after the whitespace, if it skips any
Name(s, loc0, ws, act) == tmp_expr("Name", s, preParse(s, loc0, ws), act)

\* SourceName = Regex('[^\x20\x09-\x0D]+'): a run of non-whitespace characters
SourceName(s, loc0, ws) ==
    LET loc == preParse(s, loc0, ws)
        RECURSIVE run(_)
        run(i) == IF i < Len(s) /\ At(s, i) \notin (White \cup {"\f"}) THEN run(i + 1) ELSE i
        end == run(loc)
    IN  IF end = loc THEN Fail(loc) ELSE Ok(end, <<PyStr(Slice(s, loc, end))>>, <<>>)

RECURSIVE JoinStr(_)
\* "".join(str(x) for x in toks).  SymbolNode has no __str__, so str() of one is
\* its __repr__: the symbol between backquotes
JoinStr(toks) ==
    IF toks = <<>> THEN ""
    ELSE (IF toks[1].k = "Symbol" THEN Backquote \o toks[1].symbol \o Backquote
          ELSE toks[1].v) \o JoinStr(Tail(toks))

\* Combine(e): e matched without skipping whitespace inside (the caller passes
\* ws = FALSE to e), its tokens joined into one string
Combine(r) == IF IsOk(r) THEN Ok(r.loc, <<PyStr(JoinStr(r.toks))>>, r.names) ELSE r

RECURSIVE CNameDots(_, _, _)
\* ZeroOrMore(CName + "."), inside a Combine
CNameDots(s, loc, act) ==
    LET one == Then(Name(s, loc, FALSE, act), LAMBDA l : Literal(".", s, l, FALSE))
    IN  IF one.st = "ParseException" THEN Ok(loc, <<>>, <<>>)
        ELSE Then(one, LAMBDA l : CNameDots(s, l, act))

\* ClassName = Combine(Optional(SourceName + "@") + ZeroOrMore(CName + ".") + CName)
ClassName_parseImpl(s, loc, act) ==
    LET src == Opt(Then(SourceName(s, loc, FALSE), LAMBDA l : Literal("@", s, l, FALSE)), loc)
        body == Then(Then(src, LAMBDA l : CNameDots(s, l, act)),
                     LAMBDA l : Name(s, l, FALSE, act))
    IN  SymbolNode_parse(Combine(body), act)

\* ClassName where an element refers to it
ClassName(s, loc0, ws, act) == tmp_expr("ClassName", s, preParse(s, loc0, ws), act)

\* Combine(Optional(ClassName + sep) + Name): FunctionName, VariableName
\* (sep = "."), EnumName (sep = "#") and the first form of ConstantName
QualifiedName(sep, s, loc0, ws, act) ==
    LET loc == preParse(s, loc0, ws)
        cls == Opt(Then(ClassName(s, loc, FALSE, act),
                        LAMBDA l : Literal(sep, s, l, FALSE)), loc)
        body == Then(cls, LAMBDA l : Name(s, l, FALSE, act))
    IN  SymbolNode_parse(Combine(body), act)

FunctionName(s, loc, ws, act) == QualifiedName(".", s, loc, ws, act)
VariableName(s, loc, ws, act) == QualifiedName(".", s, loc, ws, act)
EnumName(s, loc, ws, act) == QualifiedName("#", s, loc, ws, act)

\* ConstantName = Combine(Optional(ClassName + ".") + ConstName)
\*              | Combine(EnumName + "#" + ConstName)
ConstantName(s, loc0, ws, act) ==
    LET loc == preParse(s, loc0, ws)
        second == Then(Then(EnumName(s, loc, FALSE, act),
                            LAMBDA l : Literal("#", s, l, FALSE)),
                       LAMBDA l : Name(s, l, FALSE, act))
    IN  SymbolNode_parse(
            OrElse(QualifiedName(".", s, loc0, ws, act), Combine(second)), act)

(***************************************************************************)
(* Literals (parser.py, "リテラル")                                        *)
(***************************************************************************)
RECURSIVE Unescape(_)
\* string_action's re.sub(r'\\(.)', repl, body): left to right, a backslash and
\* the character after it (any but a newline) become one character
Unescape(b) ==
    IF b = "" THEN ""
    ELSE IF At(b, 0) = "\\" /\ Len(b) >= 2 /\ At(b, 1) # "\n"
    THEN LET esc == At(b, 1)
             out == CASE esc = "n" -> "\n"
                      [] esc = "r" -> "\r"
                      [] OTHER     -> esc   \* "\\", "'", '"' and any other: itself
         IN  out \o Unescape(SubSeq(b, 3, Len(b)))
    ELSE At(b, 0) \o Unescape(SubSeq(b, 2, Len(b)))

\* string_action / char_action: r[0][1:-1], unescaped
string_action(r, act) ==
    IF ~IsOk(r) \/ ~act THEN r
    ELSE LET tok == r.toks[1].v
         IN  Returns(r, PyStr(Unescape(SubSeq(tok, 2, Len(tok) - 1))))

RECURSIVE QuotedEnd(_, _, _)
\* where the regex (\\.|[^q])*q matches from loc to (-1: no match); the regex
\* engine prefers the escape alternative and more repetitions, and backtracks
QuotedEnd(s, loc, q) ==
    LET esc == IF At(s, loc) = "\\" /\ loc + 1 < Len(s) /\ At(s, loc + 1) # "\n"
               THEN QuotedEnd(s, loc + 2, q) ELSE -1
        plain == IF loc < Len(s) /\ At(s, loc) # q
                 THEN QuotedEnd(s, loc + 1, q) ELSE -1
    IN  IF esc >= 0 THEN esc
        ELSE IF plain >= 0 THEN plain
        ELSE IF At(s, loc) = q THEN loc + 1 ELSE -1

\* String = Regex(r'"(\\.|[^"])*"')
String(s, loc0, ws, act) ==
    LET loc == preParse(s, loc0, ws)
        end == IF At(s, loc) = "\"" THEN QuotedEnd(s, loc + 1, "\"") ELSE -1
    IN  IF end < 0 THEN Fail(loc)
        ELSE string_action(Ok(end, <<PyStr(Slice(s, loc, end))>>, <<>>), act)

\* Char = Regex(r"'(\\.|[^'])'")
Char(s, loc0, ws, act) ==
    LET loc == preParse(s, loc0, ws)
        end == IF At(s, loc) # "'" THEN -1
               ELSE IF /\ At(s, loc + 1) = "\\" /\ loc + 2 < Len(s)
                       /\ At(s, loc + 2) # "\n" /\ At(s, loc + 3) = "'"
               THEN loc + 4
               ELSE IF /\ loc + 1 < Len(s) /\ At(s, loc + 1) # "'"
                       /\ At(s, loc + 2) = "'"
               THEN loc + 3
               ELSE -1
    IN  IF end < 0 THEN Fail(loc)
        ELSE string_action(Ok(end, <<PyStr(Slice(s, loc, end))>>, <<>>), act)

\* Boolean = Keyword("true") -> True | Keyword("false") -> False
Boolean(s, loc, ws, act) ==
    LET t == Keyword("true", s, loc, ws)
        f == Keyword("false", s, loc, ws)
    IN  IF IsOk(t) THEN (IF act THEN Returns(t, PyBool(TRUE)) ELSE t)
        ELSE IF IsOk(f) THEN (IF act THEN Returns(f, PyBool(FALSE)) ELSE f)
        ELSE f

(***************************************************************************)
(* Numeric literals (parser.py, "数値リテラル")                            *)
(***************************************************************************)
DigitChars == "0123456789ABCDEFGHIJKLMNOPQRSTUVWXYZ"
\* the value int() gives a digit character (36: not a digit)
DigitValue(c) ==
    IF c \in AlnumUpper THEN CHOOSE i \in 0..35 : At(DigitChars, i) = c
    ELSE IF c \in Lower THEN 10 + (CHOOSE i \in 0..25 : At("abcdefghijklmnopqrstuvwxyz", i) = c)
    ELSE 36

RECURSIVE Pow(_, _)
Pow(b, e) == IF e <= 0 THEN 1 ELSE b * Pow(b, e - 1)

RECURSIVE DigitsValue(_, _, _)
\* the digits of d read in base radix onto acc, -1 when one is not a digit of it
DigitsValue(d, radix, acc) ==
    IF d = "" THEN acc
    ELSE IF DigitValue(At(d, 0)) >= radix THEN -1
    ELSE DigitsValue(SubSeq(d, 2, Len(d)), radix, acc * radix + DigitValue(At(d, 0)))

\* IntPrefix skipping the prefixes in every base
IntPrefix_anyBase(radix) == {"0b", "0B", "0o", "0O", "0x", "0X"}

\* the base prefix int(x, base) accepts and skips: 0b/0B for base 2, 0o/0O for
\* base 8, 0x/0X for base 16
IntPrefix(radix) ==
    CASE radix = 2  -> {"0b", "0B"}
      [] radix = 8  -> {"0o", "0O"}
      [] radix = 16 -> {"0x", "0X"}
      [] OTHER      -> {}

\* Python's int(x, radix) for a string x without sign or blanks: its value, or
\* -1 for ValueError
int(x, radix) ==
    LET d == IF Len(x) >= 2 /\ SubSeq(x, 1, 2) \in IntPrefix(radix)
             THEN SubSeq(x, 3, Len(x)) ELSE x
    IN  IF d = "" THEN -1 ELSE DigitsValue(d, radix, 0)

RECURSIVE Find(_, _, _)
\* x.find(c): the offset of the first c in x from i on, -1 if there is none
Find(x, c, i) ==
    IF i >= Len(x) THEN -1 ELSE IF At(x, i) = c THEN i ELSE Find(x, c, i + 1)

\* int(precision): a float is truncated towards zero
IntOf(v) ==
    IF v.k = "int" THEN v.v
    ELSE IF v.num >= 0 THEN v.num \div v.den ELSE -((-v.num) \div v.den)

\* whether math.pow(radix, e) raises OverflowError, its result being no
\* double: radix^e >= 2^n^e >= 2^1024 for the n with 2^n <= radix.  (The
\* powers between that and the largest integer of the model are beyond the
\* numbers the model computes with.)
PowOverflows(radix, e) ==
    e * (CHOOSE n \in 0..5 : Pow(2, n) <= radix /\ radix < Pow(2, n + 1)) >= 1024

RECURSIVE Scale(_, _, _)
\* n * b^e for n >= 0, or -1 once it leaves the integers the model computes
\* with
Scale(n, b, e) ==
    IF e = 0 \/ n = 0 THEN n
    ELSE IF n > Pow(2, 30) \div b THEN -1
    ELSE Scale(n * b, b, e - 1)

\* num * math.pow(radix, e): always a float.  A float is kept as the fraction
\* num / den; one whose fraction the model does not compute is kept with den = 0
TimesPow(v, radix, e) ==
    LET num == IF v.k = "int" THEN v.v ELSE v.num
        den == IF v.k = "int" THEN 1 ELSE v.den
        scaled == IF e >= 0 THEN Scale(num, radix, e) ELSE Scale(den, radix, -e)
    IN  IF scaled < 0 THEN PyFloat(0, 0)
        ELSE IF e >= 0 THEN PyFloat(scaled, den)
        ELSE PyFloat(num, scaled)

\* the radix number_action reads off the body: 0 stands for the
\* ParseFatalException of a prefix outside 2..36 or equal to 10 or 16
RadixOf(body) ==
    LET h == Find(body, "#", 0)
        r == DigitsValue(SubSeq(body, 1, h), 10, 0)
    IN  IF h < 0 THEN 10
        ELSE IF h = 0 THEN 16
        ELSE IF ~(2 <= r /\ r <= 36) \/ r \in {10, 16} THEN 0
        ELSE r

\* number_action(instring, loc, r): r carries 'body' and, when written, 'sign'
\* and 'precision' (r.get(..., '') otherwise)
number_action(r, loc) ==
    LET sign == IF HasName(r, "sign") THEN Get(r, "sign").v ELSE ""
        precision == IF HasName(r, "precision") THEN Get(r, "precision") ELSE PyStr("")
        body0 == Get(r, "body").v
        h == Find(body0, "#", 0)
        radix == RadixOf(body0)
        body == IF h < 0 THEN body0 ELSE SubSeq(body0, h + 2, Len(body0))
        dot == Find(body, ".", 0)
        ipart == int(IF dot < 0 THEN body ELSE SubSeq(body, 1, dot), radix)
        fstr == SubSeq(body, dot + 2, Len(body))
        fpart == int(fstr, radix)
        num == IF dot < 0 THEN PyInt(ipart)
               ELSE PyFloat(ipart * Pow(radix, Len(fstr)) + fpart,
                            Pow(radix, Len(fstr)))
        scaled == IF Truthy(precision)
                  THEN TimesPow(num, radix, IntOf(precision)) ELSE num
        signed == IF sign # "-" THEN scaled
                  ELSE IF scaled.k = "int" THEN PyInt(-scaled.v)
                  ELSE PyFloat(-scaled.num, scaled.den)
    IN  IF radix = 0 THEN Raise("ParseFatalException", loc)
        ELSE IF ipart < 0 \/ (dot >= 0 /\ fpart < 0)
        THEN Raise("ParseFatalException", loc)
        ELSE IF Truthy(precision) /\ PowOverflows(radix, IntOf(precision))
        THEN Raise("OverflowError", loc)
        ELSE Returns(r, signed)

\* the end of digits+ ( "." digits+ )? from loc, digits drawn from cs; loc itself
\* when no digit is there
DigitsAndFraction(s, loc, cs) ==
    LET iend == ScanWhile(s, loc, cs)
        fend == ScanWhile(s, iend + 1, cs)
    IN  IF iend > loc /\ At(s, iend) = "." /\ fend > iend + 1 THEN fend ELSE iend

RegexMatch(s, loc, end) ==
    IF end < 0 THEN Fail(loc) ELSE Ok(end, <<PyStr(Slice(s, loc, end))>>, <<>>)

\* BaseX = Regex(r"([1-9][0-9]?)#([0-9A-Z]+)(?:\.([0-9A-Z]+))?")
BaseX(s, loc0, ws) ==
    LET loc == preParse(s, loc0, ws)
        hash == IF At(s, loc) \notin (DecDigit \ {"0"}) THEN -1
                ELSE IF At(s, loc + 1) \in DecDigit /\ At(s, loc + 2) = "#" THEN loc + 2
                ELSE IF At(s, loc + 1) = "#" THEN loc + 1
                ELSE -1
        end == IF hash < 0 THEN -1 ELSE DigitsAndFraction(s, hash + 1, AlnumUpper)
    IN  RegexMatch(s, loc, IF hash >= 0 /\ end > hash + 1 THEN end ELSE -1)

\* Base10 = Regex(r"([0-9]+)(?:\.([0-9]+))?")
Base10(s, loc0, ws) ==
    LET loc == preParse(s, loc0, ws)
        end == DigitsAndFraction(s, loc, DecDigit)
    IN  RegexMatch(s, loc, IF end > loc THEN end ELSE -1)

\* Base16 with the lowercase digits a-f as well: #([0-9A-Fa-f]+)...
Base16_lowercase(s, loc0, ws) ==
    LET loc == preParse(s, loc0, ws)
        digits == HexUpper \cup {"a", "b", "c", "d", "e", "f"}
        end == IF At(s, loc) = "#" THEN DigitsAndFraction(s, loc + 1, digits) ELSE -1
    IN  RegexMatch(s, loc, IF end > loc + 1 THEN end ELSE -1)

\* Base16 = Regex(r"#([0-9A-F]+)(?:\.([0-9A-F]+))?")
Base16(s, loc0, ws) ==
    LET loc == preParse(s, loc0, ws)
        end == IF At(s, loc) = "#" THEN DigitsAndFraction(s, loc + 1, HexUpper) ELSE -1
    IN  RegexMatch(s, loc, IF end > loc + 1 THEN end ELSE -1)

\* NonNegativeNumber = ( BaseX | Base10 | Base16 )
NonNegativeNumber(s, loc, ws) ==
    OrElse(BaseX(s, loc, ws), OrElse(Base10(s, loc, ws), Base16(s, loc, ws)))

RECURSIVE Number(_, _, _)
\* a number without the sign in front of it
Number_unsigned(s, loc0, act) ==
    LET start == preParse(s, loc0, TRUE)
        body == Named(NonNegativeNumber(s, start, TRUE), "body")
    IN  IF IsOk(body) /\ act THEN number_action(body, start) ELSE body

\* Number << ( Optional(Regex(r'[+-]')('sign')) + NonNegativeNumber('body') +
\*             Optional("e" + Number('precision')) ).setParseAction(number_action)
Number(s, loc0, act) ==
    LET start == preParse(s, loc0, TRUE)
        sign == Opt(Named(RegexMatch(s, start, IF At(s, start) \in {"+", "-"}
                                               THEN start + 1 ELSE -1), "sign"), loc0)
        body == Then(sign, LAMBDA l : Named(NonNegativeNumber(s, l, TRUE), "body"))
        all == Then(body, LAMBDA l :
                   Opt(Then(Literal("e", s, l, TRUE),
                            LAMBDA m : Named(Number(s, m, act), "precision")), l))
    IN  IF IsOk(all) /\ act THEN number_action(all, start) ELSE all

(***************************************************************************)
(* Repetition, and node construction (nodes.py)                            *)
(***************************************************************************)
RECURSIVE ZeroOrMore(_, _)
\* ZeroOrMore(e): e repeated until it raises ParseException
ZeroOrMore(P(_), loc) ==
    LET one == P(loc)
    IN  IF one.st = "ParseException" THEN Ok(loc, <<>>, <<>>)
        ELSE Then(one, LAMBDA l : ZeroOrMore(P, l))

\* OneOrMore(e)
OneOrMore(P(_), loc) == Then(P(loc), LAMBDA l : ZeroOrMore(P, l))

\* Node.parse: cls(**r).  The call raises TypeError, which Node.parse turns
\* into "assert False", when r holds a name that is no parameter of __init__ or
\* lacks one that has no default.
KeywordsFit(r, params, required) ==
    LET keys == {r.names[i][1] : i \in 1..Len(r.names)}
    IN  keys \subseteq params /\ required \subseteq keys

AssertFalse(r) == Raise("AssertionError", r.loc)

ExprNode(operator, operands) ==
    [k |-> "Expr", operator |-> operator, operands |-> operands]

\* ExprNode.parse_as_unary: op, expr = r[0]
parse_as_unary(r, act) ==
    IF ~IsOk(r) \/ ~act THEN r
    ELSE LET g == r.toks[1].items
         IN  IF Len(g) # 2 THEN Raise("ValueError", r.loc)
             ELSE Returns(r, ExprNode(g[1], <<g[2]>>))

\* ExprNode.parse_as_binary: left, op, right = r[0]; cls(op, left, right).
\* Unpacking a list of another length raises ValueError, which the method's
\* "except TypeError" does not catch.
parse_as_binary(r, act) ==
    IF ~IsOk(r) \/ ~act THEN r
    ELSE LET g == r.toks[1].items
         IN  IF Len(g) # 3 THEN Raise("ValueError", r.loc)
             ELSE Returns(r, ExprNode(g[2], <<g[1], g[3]>>))

\* ExprNode.ternary_op = symbol('?()')
ternary_op == SymbolNode("?()")

\* ExprNode.parse_as_ternary: cond, true_body, false_body = r[0]
parse_as_ternary(r, act) ==
    IF ~IsOk(r) \/ ~act THEN r
    ELSE LET g == r.toks[1].items
         IN  IF Len(g) # 3 THEN Raise("ValueError", r.loc)
             ELSE Returns(r, ExprNode(ternary_op, <<g[1], g[2], g[3]>>))

\* tuple(x or [])
TupleOrEmpty(x) == IF Truthy(x) THEN x.items ELSE <<>>

\* FuncNode.parse: FuncNode(funcname, args=None)
FuncNode_parse(r, act) ==
    IF ~IsOk(r) \/ ~act THEN r
    ELSE IF ~KeywordsFit(r, {"funcname", "args"}, {"funcname"}) THEN AssertFalse(r)
    ELSE Returns(r, [k |-> "Func", funcname |-> Get(r, "funcname"),
                     args |-> TupleOrEmpty(GetOrNone(r, "args"))])

\* ArrayNode.parse: ArrayNode(array, index)
ArrayNode_parse(r, act) ==
    IF ~IsOk(r) \/ ~act THEN r
    ELSE IF ~KeywordsFit(r, {"array", "index"}, {"array", "index"}) THEN AssertFalse(r)
    ELSE Returns(r, [k |-> "Array", array |-> Get(r, "array"),
                     index |-> Get(r, "index")])

\* NewNode.parse: NewNode(type)
NewNode_parse(r, act) ==
    IF ~IsOk(r) \/ ~act THEN r
    ELSE IF ~KeywordsFit(r, {"type"}, {"type"}) THEN AssertFalse(r)
    ELSE Returns(r, [k |-> "New", type |-> Get(r, "type")])

\* CollectionTypeNode / DictTypeNode / FuncTypeNode: __init__(self, **kw)
AnyKeywordNode_parse(r, kind, act) ==
    IF ~IsOk(r) \/ ~act THEN r ELSE Returns(r, [k |-> kind])

\* ArrayTypeNode.parse: ArrayTypeNode(base_type, size); tuple(size)
ArrayTypeNode_parse(r, act) ==
    IF ~IsOk(r) \/ ~act THEN r
    ELSE IF ~KeywordsFit(r, {"base_type", "size"}, {"base_type", "size"})
    THEN AssertFalse(r)
    ELSE Returns(r, [k |-> "ArrayType", base_type |-> Get(r, "base_type"),
                     size |-> Get(r, "size").items])

\* array_size_action: [None] for "[]", [r[0]] for "[expr]"
array_size_action(r, act) ==
    IF ~IsOk(r) \/ ~act THEN r
    ELSE IF Len(r.toks) = 0 THEN Returns(r, PyNone)
    ELSE Returns(r, r.toks[1])

(***************************************************************************)
(* Types and expressions (parser.py, "型" and "式")                        *)
(***************************************************************************)
LPAREN(s, loc) == Suppress(Literal("(", s, loc, TRUE))
RPAREN(s, loc) == Suppress(Literal(")", s, loc, TRUE))
LBRACK(s, loc) == Suppress(Literal("[", s, loc, TRUE))
RBRACK(s, loc) == Suppress(Literal("]", s, loc, TRUE))
LABRACK(s, loc) == Suppress(Literal("<", s, loc, TRUE))
RABRACK(s, loc) == Suppress(Literal(">", s, loc, TRUE))
COMMA(s, loc) == Suppress(Literal(",", s, loc, TRUE))
COLON(s, loc) == Suppress(Literal(":", s, loc, TRUE))
DCOLON(s, loc) == Suppress(Literal("::", s, loc, TRUE))

\* PrimitiveType = ( oneOf([...]) | oneOf([...]) | oneOf([...]) ), SymbolNode.parse
PrimitiveType(s, loc, act) ==
    SymbolNode_parse(
        OrElse(oneOf({"int", "float", "char", "bool"}, s, loc, TRUE),
        OrElse(oneOf({"byte8", "byte16", "byte32", "byte64"}, s, loc, TRUE),
               oneOf({"sbyte8", "sbyte16", "sbyte32", "sbyte64"}, s, loc, TRUE))),
        act)

\* BinaryOps with the multiplicative and the additive operators on each
\* other's level
BinaryOps_swapped(level) ==
    CASE level = "mul"     -> {"+", "-"}
      [] level = "add"     -> {"*", "/", "%"}
      [] level = "concat"  -> {"~"}
      [] level = "compare" -> {"=", "<>", "<", ">", "<=", ">="}
      [] level = "logical" -> {"&", "|"}
      [] level = "assign"  -> {"::", ":+", ":-", ":*", ":/", ":%", ":^", ":~"}

\* the operators of the levels built by make_binary_expr
BinaryOps(level) ==
    CASE level = "mul"     -> {"*", "/", "%"}
      [] level = "add"     -> {"+", "-"}
      [] level = "concat"  -> {"~"}
      [] level = "compare" -> {"=", "<>", "<", ">", "<=", ">="}
      [] level = "logical" -> {"&", "|"}
      [] level = "assign"  -> {"::", ":+", ":-", ":*", ":/", ":%", ":^", ":~"}

\* Type = Forward()
Type(s, loc, act) == tmp_expr("Type", s, loc, act)

\* Expr << tmp_expr (the last one assigned: the assignment level)
Expr(s, loc, act) == tmp_expr("assign", s, loc, act)

\* delimitedList(e): e + ZeroOrMore(Suppress(",") + e)
delimitedList(P(_), s, loc) ==
    Then(P(loc), LAMBDA l :
        ZeroOrMore(LAMBDA m : Then(COMMA(s, m), P), l))

\* ListType / StackType / QueueType =
\*   Keyword(kw) + LABRACK + Type('item_type') + RABRACK, CollectionTypeNode.parse
CollectionType(kw, s, loc, act) ==
    AnyKeywordNode_parse(
        Then(Then(Then(Keyword(kw, s, loc, TRUE),
             LAMBDA l : LABRACK(s, l)),
             LAMBDA l : Named(Type(s, l, act), "item_type")),
             LAMBDA l : RABRACK(s, l)),
        "CollectionType", act)

\* DictType = Keyword("dict") + LABRACK + Type('keytype') + COMMA +
\*            Type('valtype') + RABRACK, DictTypeNode.parse
DictType(s, loc, act) ==
    AnyKeywordNode_parse(
        Then(Then(Then(Then(Then(Keyword("dict", s, loc, TRUE),
             LAMBDA l : LABRACK(s, l)),
             LAMBDA l : Named(Type(s, l, act), "keytype")),
             LAMBDA l : COMMA(s, l)),
             LAMBDA l : Named(Type(s, l, act), "valtype")),
             LAMBDA l : RABRACK(s, l)),
        "DictType", act)

\* FuncType = Keyword("func") + LABRACK + LPAREN + delimitedList(Type)('argtype*')
\*            + RPAREN + COLON + Type('rettype') + RABRACK, FuncTypeNode.parse
FuncType(s, loc, act) ==
    AnyKeywordNode_parse(
        Then(Then(Then(Then(Then(Then(Then(Keyword("func", s, loc, TRUE),
             LAMBDA l : LABRACK(s, l)),
             LAMBDA l : LPAREN(s, l)),
             LAMBDA l : NamedList(delimitedList(LAMBDA m : Type(s, m, act), s, l),
                                  "argtype")),
             LAMBDA l : RPAREN(s, l)),
             LAMBDA l : COLON(s, l)),
             LAMBDA l : Named(Type(s, l, act), "rettype")),
             LAMBDA l : RABRACK(s, l)),
        "FuncType", act)

\* ArrayType = OneOrMore((LBRACK + Optional(Expr) + RBRACK)
\*                 .setParseAction(array_size_action))('size') + Type('base_type'),
\*             ArrayTypeNode.parse
ArrayType(s, loc, act) ==
    LET dim(l) == array_size_action(
                      Then(Then(LBRACK(s, l),
                           LAMBDA m : Opt(Expr(s, m, act), m)),
                           LAMBDA m : RBRACK(s, m)), act)
    IN  ArrayTypeNode_parse(
            Then(NamedList(OneOrMore(dim, loc), "size"),
                 LAMBDA l : Named(Type(s, l, act), "base_type")), act)

\* Type << ( PrimitiveType | EnumName | ClassName | ListType | StackType |
\*           QueueType | DictType | FuncType | ArrayType )
Type_parseImpl(s, loc, act) ==
    OrElse(PrimitiveType(s, loc, act),
    OrElse(EnumName(s, loc, TRUE, act),
    OrElse(ClassName(s, loc, TRUE, act),
    OrElse(CollectionType("list", s, loc, act),
    OrElse(CollectionType("stack", s, loc, act),
    OrElse(CollectionType("queue", s, loc, act),
    OrElse(DictType(s, loc, act),
    OrElse(FuncType(s, loc, act),
           ArrayType(s, loc, act)))))))))

\* BaseExpr = ( String | Char | Boolean | VariableName | ConstantName | BlockName )
BaseExpr(s, loc, act) ==
    OrElse(String(s, loc, TRUE, act),
    OrElse(Char(s, loc, TRUE, act),
    OrElse(Boolean(s, loc, TRUE, act),
    OrElse(VariableName(s, loc, TRUE, act),
    OrElse(ConstantName(s, loc, TRUE, act),
           Name(s, loc, TRUE, act))))))

\* NestedExpr = (LPAREN + Expr + RPAREN)
NestedExpr(s, loc, act) ==
    Then(Then(LPAREN(s, loc), LAMBDA l : Expr(s, l, act)), LAMBDA l : RPAREN(s, l))

\* "2: 関数呼び出し": FollowedBy(FunctionName + LPAREN) + FunctionName('funcname')
\*   + LPAREN + Optional(delimitedList(Expr)('args')) + RPAREN, FuncNode.parse
FuncCall(s, loc, act) ==
    LET look == Lookahead(Then(FunctionName(s, loc, TRUE, FALSE),
                               LAMBDA l : LPAREN(s, l)), loc)
    IN  FuncNode_parse(
            Then(Then(Then(Then(look,
                 LAMBDA l : Named(FunctionName(s, l, TRUE, act), "funcname")),
                 LAMBDA l : LPAREN(s, l)),
                 LAMBDA l : Opt(NamedList(delimitedList(LAMBDA m : Expr(s, m, act), s, l),
                                          "args"), l)),
                 LAMBDA l : RPAREN(s, l)), act)

\* "2: 配列アクセス": FollowedBy(VariableName + LBRACK) + VariableName('array')
\*   + LBRACK + Expr('index') + RBRACK, ArrayNode.parse
ArrayAccess(s, loc, act) ==
    LET look == Lookahead(Then(VariableName(s, loc, TRUE, FALSE),
                               LAMBDA l : LBRACK(s, l)), loc)
    IN  ArrayNode_parse(
            Then(Then(Then(Then(look,
                 LAMBDA l : Named(VariableName(s, l, TRUE, act), "array")),
                 LAMBDA l : LBRACK(s, l)),
                 LAMBDA l : Named(Expr(s, l, act), "index")),
                 LAMBDA l : RBRACK(s, l)), act)

\* "3: インスタンスの作成": FollowedBy(Literal("@new") + Type)
\*   + (Literal("@new").suppress() + Type('type')), NewNode.parse
NewInstance(s, loc, act) ==
    LET look == Lookahead(Then(Literal("@new", s, loc, TRUE),
                               LAMBDA l : Type(s, l, FALSE)), loc)
    IN  NewNode_parse(
            Then(Then(look,
                 LAMBDA l : Suppress(Literal("@new", s, l, TRUE))),
                 LAMBDA l : Named(Type(s, l, act), "type")), act)

\* make_unary_expr(lastExpr, oneOf("+ - !"), opAssoc.RIGHT):
\*   matchExpr = FollowedBy(opExpr.expr + thisExpr) + Group(Optional(opExpr) + thisExpr)
\*   thisExpr << ( matchExpr.setParseAction(parse_as_unary) | lastExpr )
UnaryThis(s, loc, act) ==
    LET opExpr(l, a) == SymbolNode_parse(oneOf({"+", "-", "!"}, s, l, TRUE), a)
        look == Lookahead(Then(opExpr(loc, FALSE),
                               LAMBDA l : tmp_expr("thisExpr", s, l, FALSE)), loc)
        matchExpr == Then(look, LAMBDA k :
                         Group(Then(Opt(opExpr(k, act), k),
                                    LAMBDA l : tmp_expr("thisExpr", s, l, act))))
    IN  OrElse(parse_as_unary(matchExpr, act), tmp_expr("new", s, loc, act))

\* make_binary_expr(lastExpr, opExpr, rightLeftAssoc), opExpr given:
\*   LEFT:  FollowedBy(lastExpr + opExpr + lastExpr)
\*          + Group(lastExpr + OneOrMore(opExpr + lastExpr))
\*   RIGHT: FollowedBy(lastExpr + opExpr + thisExpr)
\*          + Group(lastExpr + OneOrMore(opExpr + thisExpr))
\*   thisExpr << ( matchExpr.setParseAction(parse_as_binary) | lastExpr )
make_binary_expr(this, s, loc, act) ==
    LET last == Levels[LevelIndex(this) - 1]
        opExpr(l, a) == SymbolNode_parse(oneOf(BinaryOps(this), s, l, TRUE), a)
        \* opAssoc.RIGHT for the assignment level, opAssoc.LEFT for the others
        right(l, a) == IF this # "assign" THEN tmp_expr(last, s, l, a)
                       ELSE tmp_expr(this, s, l, a)
        look == Lookahead(Then(Then(tmp_expr(last, s, loc, FALSE),
                               LAMBDA l : opExpr(l, FALSE)),
                               LAMBDA l : right(l, FALSE)), loc)
        matchExpr == Then(look, LAMBDA k :
                         Group(Then(tmp_expr(last, s, k, act), LAMBDA l :
                               OneOrMore(LAMBDA m : Then(opExpr(m, act),
                                                         LAMBDA n : right(n, act)), l))))
    IN  OrElse(parse_as_binary(matchExpr, act), tmp_expr(last, s, loc, act))

\* "4: クラスチェック": FollowedBy(tmp_expr + class_check_op + ClassName)
\*   + Group(tmp_expr + OneOrMore(class_check_op + ClassName)), parse_as_binary
ClassCheck(s, loc, act) ==
    LET class_check_op(l, a) == SymbolNode_parse(oneOf({"@is", "@nis"}, s, l, TRUE), a)
        look == Lookahead(Then(Then(tmp_expr("unary", s, loc, FALSE),
                               LAMBDA l : class_check_op(l, FALSE)),
                               LAMBDA l : ClassName(s, l, TRUE, FALSE)), loc)
        matchExpr == Then(look, LAMBDA k :
                         Group(Then(tmp_expr("unary", s, k, act), LAMBDA l :
                               OneOrMore(LAMBDA m : Then(class_check_op(m, act),
                                             LAMBDA n : ClassName(s, n, TRUE, act)), l))))
    IN  OrElse(parse_as_binary(matchExpr, act), tmp_expr("unary", s, loc, act))

\* "5: キャスト演算": FollowedBy(tmp_expr + cast_op + Type)
\*   + Group(tmp_expr + cast_op + Type), parse_as_binary
Cast(s, loc, act) ==
    LET cast_op(l, a) == SymbolNode_parse(Literal("$", s, l, TRUE), a)
        look == Lookahead(Then(Then(tmp_expr("is", s, loc, FALSE),
                               LAMBDA l : cast_op(l, FALSE)),
                               LAMBDA l : Type(s, l, FALSE)), loc)
        matchExpr == Then(look, LAMBDA k :
                         Group(Then(Then(tmp_expr("is", s, k, act),
                               LAMBDA l : cast_op(l, act)),
                               LAMBDA l : Type(s, l, act))))
    IN  OrElse(parse_as_binary(matchExpr, act), tmp_expr("is", s, loc, act))

\* "?" and "(" as two elements, whitespace allowed between them
TernaryOpen_spaced(s, loc) ==
    Then(Literal("?", s, loc, TRUE), LAMBDA l : Suppress(Literal("(", s, l, TRUE)))

\* Combine(Literal("?") + LPAREN): "?" and "(" with nothing between them
TernaryOpen(s, loc) ==
    LET start == preParse(s, loc, TRUE)
    IN  Combine(Then(Literal("?", s, start, FALSE),
                     LAMBDA l : Suppress(Literal("(", s, l, FALSE))))

\* "13: 条件演算": FollowedBy(tmp_expr + Combine(Literal("?") + LPAREN) + tmp_expr
\*   + COMMA + tmp_expr + RPAREN) + Group(the same, "?(" suppressed), parse_as_ternary
Ternary(s, loc, act) ==
    LET body(k, a, keep) ==
            Then(Then(Then(Then(Then(tmp_expr("logical", s, k, a),
                 LAMBDA l : IF keep THEN TernaryOpen(s, l) ELSE Suppress(TernaryOpen(s, l))),
                 LAMBDA l : tmp_expr("logical", s, l, a)),
                 LAMBDA l : COMMA(s, l)),
                 LAMBDA l : tmp_expr("logical", s, l, a)),
                 LAMBDA l : RPAREN(s, l))
        look == Lookahead(body(loc, FALSE, TRUE), loc)
        matchExpr == Then(look, LAMBDA k : Group(body(k, act, FALSE)))
    IN  OrElse(parse_as_ternary(matchExpr, act), tmp_expr("logical", s, loc, act))

(***************************************************************************)
(* Comments (parser.py, "コメント")                                        *)
(***************************************************************************)
\* an element of Comment itself, which ignore() did not reach: it skips
\* whitespace only
Plain(lit, s, loc0) ==
    LET loc == ScanWhile(s, loc0, White)
    IN  IF StartsWith(s, loc, lit) THEN Ok(loc + Len(lit), <<PyStr(lit)>>, <<>>)
        ELSE Fail(loc)

\* Regex(r"[^\"'{}]+"): a run of characters other than quotes and braces
CommentText(s, loc0) ==
    LET loc == ScanWhile(s, loc0, White)
        RECURSIVE run(_)
        run(i) == IF i < Len(s) /\ At(s, i) \notin {"\"", "'", "{", "}"}
                  THEN run(i + 1) ELSE i
        end == run(loc)
    IN  IF end = loc THEN Fail(loc) ELSE Ok(end, <<PyStr(Slice(s, loc, end))>>, <<>>)

\* Comment << Literal("{") + ZeroOrMore(String | Char | Comment | Regex(...))
\*            + Literal("}").  String and Char are the objects the literals of
\* the grammar use, so they skip comments in front of them as well.
Comment_parseImpl(s, loc, act) ==
    LET item(l) == OrElse(String(s, l, TRUE, act),
                   OrElse(Char(s, l, TRUE, act),
                   OrElse(tmp_expr("Comment", s, l, act),
                          CommentText(s, l))))
    IN  Then(Then(Plain("{", s, loc),
             LAMBDA l : ZeroOrMore(item, l)),
             LAMBDA l : Plain("}", s, l))

\* ParserElement._skipIgnorables and the whitespace after it: Suppress(Comment)
\* over and over until it fails, then the whitespace
ignore_parseImpl(s, loc, act) ==
    LET c == Suppress(tmp_expr("Comment", s, loc, act))
    IN  IF IsOk(c) THEN tmp_expr("ignore", s, c.loc, act)
        ELSE Ok(ScanWhile(s, loc, White), <<>>, <<>>)

\* what the element of a level does at loc: Comment, the skipping, Name,
\* ClassName, Type, and the successive values of parser.py's variable tmp_expr
parseImpl(level, s, loc, act) ==
    CASE level = "Comment"   -> Comment_parseImpl(s, loc, act)
      [] level = "ignore"    -> ignore_parseImpl(s, loc, act)
      [] level = "Name"      -> Name_parseImpl(s, loc, act)
      [] level = "ClassName" -> ClassName_parseImpl(s, loc, act)
      [] level = "Type"      -> Type_parseImpl(s, loc, act)
      [] level = "atom"     -> OrElse(BaseExpr(s, loc, act), NestedExpr(s, loc, act))
      [] level = "call"     -> OrElse(FuncCall(s, loc, act), tmp_expr("atom", s, loc, act))
      [] level = "index"    -> OrElse(ArrayAccess(s, loc, act), tmp_expr("call", s, loc, act))
      [] level = "new"      -> OrElse(NewInstance(s, loc, act), tmp_expr("index", s, loc, act))
      [] level = "thisExpr" -> UnaryThis(s, loc, act)
      [] level = "unary"    -> OrElse(Number(s, loc, act), tmp_expr("thisExpr", s, loc, act))
      [] level = "is"       -> ClassCheck(s, loc, act)
      [] level = "cast"    -> Cast(s, loc, act)
      [] level = "ternary" -> Ternary(s, loc, act)
      [] OTHER             -> make_binary_expr(level, s, loc, act)

(***************************************************************************)
(* Entry points                                                            *)
(***************************************************************************)
\* parseString(text, parseAll=True): the element, then StringEnd()
ParseAll(r, s) ==
    IF ~IsOk(r) THEN r
    ELSE IF preParse(s, r.loc, TRUE) < Len(s) THEN Fail(r.loc)
    ELSE r

\* what the caller of an entry point sees: the value returned or the exception
Outcome(r, value) ==
    IF IsOk(r) THEN [st |-> "ok", value |-> value]
    ELSE [st |-> r.st, value |-> PyNone]

\* parse_expr(text): Expr.parseString(text, parseAll=True)[0]
parse_expr(s) ==
    LET r == ParseAll(Expr(s, 0, TRUE), s)
    IN  Outcome(r, IF IsOk(r) THEN r.toks[1] ELSE PyNone)

(***************************************************************************)
(* The state machine: one call of an entry point on one text               *)
(***************************************************************************)
\* the number of results the descent lays down for a text
Cells(s) == (Len(s) + 1) * Len(Levels)

\* the state at the call of entry point e on text s
Called(e, s) ==
    /\ text = s
    /\ entry = e
    /\ pc = "parse"
    /\ memo = <<>>
    /\ result = [st |-> "none", value |-> PyNone]

\* one step of the descent: the next level at the current offset, with and
\* without parse actions (doActions is off inside FollowedBy and NotAny)
Descend ==
    /\ pc = "parse"
    /\ Cardinality(DOMAIN memo) < Cells(text)
    /\ LET k == Cardinality(DOMAIN memo)
           loc == Len(text) - (k \div Len(Levels))
           level == Levels[(k % Len(Levels)) + 1]
       IN  memo' = memo @@ (<<level, loc>> :>
                               [act \in BOOLEAN |-> parseImpl(level, text, loc, act)])
    /\ UNCHANGED <<text, entry, pc, result>>

\* parse_expr returns to its caller, or raises
Return_parse_expr ==
    /\ pc = "parse"
    /\ entry = "parse_expr"
    /\ Cardinality(DOMAIN memo) = Cells(text)
    /\ result' = parse_expr(text)
    /\ pc' = "done"
    /\ UNCHANGED <<text, entry, memo>>

(***************************************************************************)
(* Value lists (parser.py, "値指定")                                       *)
(***************************************************************************)
\* Group(Expr('start') + Optional(Keyword("@to").suppress() + Expr('end')))
\*   .setParseAction(value_item_action): the pair (start, end or None)
value_item_action(s, loc, act) ==
    LET g == Then(Named(Expr(s, loc, act), "start"), LAMBDA l :
                  Opt(Then(Suppress(Keyword("@to", s, l, TRUE)),
                           LAMBDA m : Named(Expr(s, m, act), "end")), l))
    IN  IF ~IsOk(g) \/ ~act THEN Group(g)
        ELSE Returns(g, PyTuple(<<Get(g, "start"), GetOrNone(g, "end")>>))

\* Value = delimitedList(...).setParseAction(ValueNode.parse); ValueNode(r)
\* keeps tuple(r)
Value(s, loc, act) ==
    LET r == delimitedList(LAMBDA l : value_item_action(s, l, act), s, loc)
    IN  IF ~IsOk(r) \/ ~act THEN r
        ELSE Returns(r, [k |-> "Value", range |-> r.toks])

(***************************************************************************)
(* Statements (parser.py, "ブロック文", "単文", "定義文", "文")            *)
(***************************************************************************)
RECURSIVE Sentences(_, _, _)

\* Optional(Group(Sentences).setResultsName(name)): the name holds the list of
\* the sentences of the body (an empty list when there is none)
Body(name, s, loc, act) == Opt(Named(Group(Sentences(s, loc, act)), name), loc)

\* Keyword(kw).suppress() + Optional(BlockName.setResultsName('block_name'))
Header(kw, s, loc, act) ==
    Then(Suppress(Keyword(kw, s, loc, TRUE)),
         LAMBDA l : Opt(Named(Name(s, l, TRUE, act), "block_name"), l))

\* (Keyword("end") + Keyword(kw)).suppress()
End(kw, s, loc) ==
    Suppress(Then(Keyword("end", s, loc, TRUE), LAMBDA l : Keyword(kw, s, l, TRUE)))

\* LPAREN + Expr.setResultsName(name) + RPAREN
Parenthesized(name, s, loc, act) ==
    Then(Then(LPAREN(s, loc), LAMBDA l : Named(Expr(s, l, act), name)),
         LAMBDA l : RPAREN(s, l))

Clause(cond, body) == [cond |-> cond, body |-> body]

RECURSIVE Zip(_, _)
\* zip(conds, bodies): pairs up to the shorter of the two
Zip(conds, bodies) ==
    IF conds = <<>> \/ bodies = <<>> THEN <<>>
    ELSE <<Clause(conds[1], bodies[1].items)>> \o Zip(Tail(conds), Tail(bodies))

\* IfNode with the else clause put before the elif clauses
IfNode_elseFirst(then_cond, then_body, elif_cond, elif_body, else_body, block_name) ==
    [k |-> "If",
     clauses |-> <<Clause(then_cond, TupleOrEmpty(then_body))>>
                 \o (IF Truthy(else_body)
                     THEN <<Clause(PyNone, else_body.items)>> ELSE <<>>)
                 \o (IF Truthy(elif_cond) /\ Truthy(elif_body)
                     THEN Zip(elif_cond.items, elif_body.items) ELSE <<>>),
     block_name |-> block_name]

\* IfNode with the else clause kept whenever the else keyword was written
IfNode_emptyElseKept(then_cond, then_body, elif_cond, elif_body, else_body, block_name) ==
    [k |-> "If",
     clauses |-> <<Clause(then_cond, TupleOrEmpty(then_body))>>
                 \o (IF Truthy(elif_cond) /\ Truthy(elif_body)
                     THEN Zip(elif_cond.items, elif_body.items) ELSE <<>>)
                 \o (IF else_body # PyNone
                     THEN <<Clause(PyNone, else_body.items)>> ELSE <<>>),
     block_name |-> block_name]

\* IfNode.__init__(then_cond, then_body=None, elif_cond=None, elif_body=None,
\*                 else_body=None, block_name=None)
IfNode(then_cond, then_body, elif_cond, elif_body, else_body, block_name) ==
    [k |-> "If",
     clauses |-> <<Clause(then_cond, TupleOrEmpty(then_body))>>
                 \o (IF Truthy(elif_cond) /\ Truthy(elif_body)
                     THEN Zip(elif_cond.items, elif_body.items) ELSE <<>>)
                 \o (IF Truthy(else_body)
                     THEN <<Clause(PyNone, else_body.items)>> ELSE <<>>),
     block_name |-> block_name]

\* IfNode.parse; asserts stands for the two assert statements of
\* IfNode.__init__
IfNode_parse(r, act) ==
    IF ~IsOk(r) \/ ~act THEN r
    ELSE IF ~KeywordsFit(r, {"then_cond", "then_body", "elif_cond", "elif_body",
                             "else_body", "block_name"}, {"then_cond"})
    THEN AssertFalse(r)
    ELSE IF LET elif_cond == GetAllOrNone(r, "elif_cond")
                elif_body == GetAllOrNone(r, "elif_body")
                asserts == IF Truthy(elif_cond) /\ Truthy(elif_body)
                           THEN Len(elif_cond.items) = Len(elif_body.items)
                           ELSE elif_cond = PyNone /\ elif_body = PyNone
            IN  ~asserts
    THEN Raise("AssertionError", r.loc)
    ELSE Returns(r, IfNode(Get(r, "then_cond"), GetOrNone(r, "then_body"),
                           GetAllOrNone(r, "elif_cond"), GetAllOrNone(r, "elif_body"),
                           GetOrNone(r, "else_body"), GetOrNone(r, "block_name")))

If(s, loc, act) ==
    LET elif(l) == Then(Then(Suppress(Keyword("elif", s, l, TRUE)),
                        LAMBDA m : Parenthesized("elif_cond", s, m, act)),
                        LAMBDA m : Body("elif_body", s, m, act))
        else(l) == Opt(Then(Suppress(Keyword("else", s, l, TRUE)),
                            LAMBDA m : Body("else_body", s, m, act)), l)
    IN  IfNode_parse(
            Then(Then(Then(Then(Then(Header("if", s, loc, act),
                 LAMBDA l : Parenthesized("then_cond", s, l, act)),
                 LAMBDA l : Body("then_body", s, l, act)),
                 LAMBDA l : ZeroOrMore(elif, l)),
                 else),
                 LAMBDA l : End("if", s, l)), act)

\* SwitchCase: Keyword("case").suppress() + Value('value') + Optional(body),
\* the pair (r["value"], r.get("body"))
SwitchCase(s, loc, act) ==
    LET r == Then(Then(Suppress(Keyword("case", s, loc, TRUE)),
                  LAMBDA l : Named(Value(s, l, act), "value")),
                  LAMBDA l : Body("body", s, l, act))
    IN  IF ~IsOk(r) \/ ~act THEN r
        ELSE Returns(r, PyTuple(<<Get(r, "value"), GetOrNone(r, "body")>>))

\* SwitchDefault: Keyword("default").suppress() + Optional(body),
\* the pair (None, r.get("body"))
SwitchDefault(s, loc, act) ==
    LET r == Then(Suppress(Keyword("default", s, loc, TRUE)),
                  LAMBDA l : Body("body", s, l, act))
    IN  IF ~IsOk(r) \/ ~act THEN r
        ELSE Returns(r, PyTuple(<<PyNone, GetOrNone(r, "body")>>))

\* SwitchNode.__init__(target, case=None, block_name=None):
\*   self.case = tuple([(c[0][0], tuple(c[0][1])) for c in case])
SwitchNode(target, case, block_name) ==
    [k |-> "Switch", target |-> target,
     case |-> [i \in 1..Len(case.items) |->
                  LET c == case.items[i].items[1].items
                  IN  [value |-> c[1], body |-> c[2].items]],
     block_name |-> block_name]

\* SwitchNode.parse: iterating case = None raises TypeError
SwitchNode_parse(r, act) ==
    IF ~IsOk(r) \/ ~act THEN r
    ELSE IF ~KeywordsFit(r, {"target", "case", "block_name"}, {"target"})
    THEN AssertFalse(r)
    ELSE IF GetAllOrNone(r, "case") = PyNone THEN AssertFalse(r)
    ELSE Returns(r, SwitchNode(Get(r, "target"), GetAllOrNone(r, "case"),
                               GetOrNone(r, "block_name")))

Switch(s, loc, act) ==
    LET case(l) == Named(Group(SwitchCase(s, l, act)), "case")
        default(l) == Opt(Named(Group(SwitchDefault(s, l, act)), "case"), l)
    IN  SwitchNode_parse(
            Then(Then(Then(Then(Header("switch", s, loc, act),
                 LAMBDA l : Parenthesized("target", s, l, act)),
                 LAMBDA l : ZeroOrMore(case, l)),
                 default),
                 LAMBDA l : End("switch", s, l)), act)

\* Node.parse for the nodes whose __init__ only stores its arguments, a body
\* stored as tuple(body or []): the node keeps every parameter, None for the
\* ones not given
Node_parse(kind, params, required, r, act) ==
    IF ~IsOk(r) \/ ~act THEN r
    ELSE IF ~KeywordsFit(r, params, required) THEN AssertFalse(r)
    ELSE Returns(r, [k |-> kind,
                     args |-> [p \in params |->
                                  IF p \in {"body", "catch_body", "finally_body"}
                                  THEN PyTuple(TupleOrEmpty(GetOrNone(r, p)))
                                  ELSE GetOrNone(r, p)]])

\* WhileNode.__init__(cond, skip=None, body=None)
While(s, loc, act) ==
    Node_parse("While", {"cond", "skip", "body"}, {"cond"},
        Then(Then(Then(Then(Then(Then(Header("while", s, loc, act),
             LAMBDA l : LPAREN(s, l)),
             LAMBDA l : Named(Expr(s, l, act), "cond")),
             LAMBDA l : Opt(Then(COMMA(s, l),
                                 LAMBDA m : Named(Expr(s, m, act), "skip")), l)),
             LAMBDA l : RPAREN(s, l)),
             LAMBDA l : Body("body", s, l, act)),
             LAMBDA l : End("while", s, l)), act)

\* ForNode.__init__(start, end, step=None, block_name=None, body=None)
For(s, loc, act) ==
    Node_parse("For", {"start", "end", "step", "block_name", "body"}, {"start", "end"},
        Then(Then(Then(Then(Then(Then(Then(Then(Header("for", s, loc, act),
             LAMBDA l : LPAREN(s, l)),
             LAMBDA l : Named(Expr(s, l, act), "start")),
             LAMBDA l : COMMA(s, l)),
             LAMBDA l : Named(Expr(s, l, act), "end")),
             LAMBDA l : Opt(Then(COMMA(s, l),
                                 LAMBDA m : Named(Expr(s, m, act), "step")), l)),
             LAMBDA l : RPAREN(s, l)),
             LAMBDA l : Body("body", s, l, act)),
             LAMBDA l : End("for", s, l)), act)

\* ForeachNode.__init__(items, block_name=None, body=None)
Foreach(s, loc, act) ==
    Node_parse("Foreach", {"items", "block_name", "body"}, {"items"},
        Then(Then(Then(Header("foreach", s, loc, act),
             LAMBDA l : Parenthesized("items", s, l, act)),
             LAMBDA l : Body("body", s, l, act)),
             LAMBDA l : End("foreach", s, l)), act)

\* TryNode.__init__(block_name=None, ignore_value=None, body=None,
\*                  catch_value=None, catch_body=None, finally_body=None)
Try(s, loc, act) ==
    LET catch(l) == Opt(Then(Then(Suppress(Keyword("catch", s, l, TRUE)),
                        LAMBDA m : Opt(Named(Value(s, m, act), "catch_value"), m)),
                        LAMBDA m : Body("catch_body", s, m, act)), l)
        finally(l) == Opt(Then(Suppress(Keyword("finally", s, l, TRUE)),
                               LAMBDA m : Body("finally_body", s, m, act)), l)
    IN  Node_parse("Try", {"block_name", "ignore_value", "body", "catch_value",
                           "catch_body", "finally_body"}, {},
            Then(Then(Then(Then(Then(Then(Then(Header("try", s, loc, act),
                 LAMBDA l : LPAREN(s, l)),
                 LAMBDA l : Opt(Named(Value(s, l, act), "ignore_value"), l)),
                 LAMBDA l : RPAREN(s, l)),
                 LAMBDA l : Body("body", s, l, act)),
                 catch),
                 finally),
                 LAMBDA l : End("try", s, l)), act)

\* IfdefMode = Keyword("release") -> IfdefNode.release
\*           | Keyword("debug")   -> IfdefNode.debug
IfdefMode(s, loc, act) ==
    LET rel == Keyword("release", s, loc, TRUE)
        dbg == Keyword("debug", s, loc, TRUE)
    IN  IF IsOk(rel) THEN (IF act THEN Returns(rel, SymbolNode("release")) ELSE rel)
        ELSE IF IsOk(dbg) THEN (IF act THEN Returns(dbg, SymbolNode("debug")) ELSE dbg)
        ELSE dbg

\* IfdefNode.__init__(mode, block_name=None, body=None)
Ifdef(s, loc, act) ==
    Node_parse("Ifdef", {"mode", "block_name", "body"}, {"mode"},
        Then(Then(Then(Then(Then(Header("ifdef", s, loc, act),
             LAMBDA l : LPAREN(s, l)),
             LAMBDA l : Named(IfdefMode(s, l, act), "mode")),
             LAMBDA l : RPAREN(s, l)),
             LAMBDA l : Body("body", s, l, act)),
             LAMBDA l : End("ifdef", s, l)), act)

\* BlockNode.__init__(block_name=None, body=None)
Block(s, loc, act) ==
    Node_parse("Block", {"block_name", "body"}, {},
        Then(Then(Header("block", s, loc, act),
             LAMBDA l : Body("body", s, l, act)),
             LAMBDA l : End("block", s, l)), act)

\* BlockStatement = ( If | Switch | While | For | Foreach | Try | Ifdef | Block )
BlockStatement(s, loc, act) ==
    OrElse(If(s, loc, act),
    OrElse(Switch(s, loc, act),
    OrElse(While(s, loc, act),
    OrElse(For(s, loc, act),
    OrElse(Foreach(s, loc, act),
    OrElse(Try(s, loc, act),
    OrElse(Ifdef(s, loc, act),
           Block(s, loc, act))))))))

\* Do = Keyword("do").suppress() + Expr('expr'), DoNode(expr)
Do(s, loc, act) ==
    Node_parse("Do", {"expr"}, {"expr"},
        Then(Suppress(Keyword("do", s, loc, TRUE)),
             LAMBDA l : Named(Expr(s, l, act), "expr")), act)

\* Import = ( Keyword("import").suppress() + SourceName )
Import(s, loc, act) ==
    Then(Suppress(Keyword("import", s, loc, TRUE)), LAMBDA l : SourceName(s, l, TRUE))

\* Break = Keyword("break").suppress() + Optional(BlockName('block_name'))
Break(s, loc, act) ==
    Node_parse("Break", {"block_name"}, {}, Header("break", s, loc, act), act)

\* Continue = Keyword("continue").suppress() + Optional(BlockName('block_name'))
Continue(s, loc, act) ==
    Node_parse("Continue", {"block_name"}, {}, Header("continue", s, loc, act), act)

\* Return = Keyword("return").suppress() + Optional(Expr('value'))
Return(s, loc, act) ==
    Node_parse("Return", {"value"}, {},
        Then(Suppress(Keyword("return", s, loc, TRUE)),
             LAMBDA l : Opt(Named(Expr(s, l, act), "value"), l)), act)

\* Assert = Keyword("assert").suppress() + Expr('expr')
AssertStmt(s, loc, act) ==
    Node_parse("Assert", {"expr"}, {"expr"},
        Then(Suppress(Keyword("assert", s, loc, TRUE)),
             LAMBDA l : Named(Expr(s, l, act), "expr")), act)

\* Throw = Keyword("throw").suppress() + Expr('code') + COMMA + Expr('message')
Throw(s, loc, act) ==
    Node_parse("Throw", {"code", "message"}, {"code"},
        Then(Then(Then(Suppress(Keyword("throw", s, loc, TRUE)),
             LAMBDA l : Named(Expr(s, l, act), "code")),
             LAMBDA l : COMMA(s, l)),
             LAMBDA l : Named(Expr(s, l, act), "message")), act)

\* SimpleSentence = ( Do | Import | Break | Continue | Return | Assert | Throw )
SimpleSentence(s, loc, act) ==
    OrElse(Do(s, loc, act),
    OrElse(Import(s, loc, act),
    OrElse(Break(s, loc, act),
    OrElse(Continue(s, loc, act),
    OrElse(Return(s, loc, act),
    OrElse(AssertStmt(s, loc, act),
           Throw(s, loc, act)))))))

\* VName + COLON + Type
Param(s, loc, act) ==
    Then(Then(Name(s, loc, TRUE, act), LAMBDA l : COLON(s, l)),
         LAMBDA l : Type(s, l, act))

\* Func = Keyword("func").suppress() + FName + LPAREN
\*        + Optional(VName + COLON + Type + ZeroOrMore(COMMA + VName + COLON + Type))
\*        + RPAREN + Optional(COLON + Type) + Optional(Group(Sentences))
\*        + (Keyword("end") + Keyword("func")).suppress()
Func(s, loc, act) ==
    Then(Then(Then(Then(Then(Then(Then(Suppress(Keyword("func", s, loc, TRUE)),
         LAMBDA l : Name(s, l, TRUE, act)),
         LAMBDA l : LPAREN(s, l)),
         LAMBDA l : Opt(delimitedList(LAMBDA m : Param(s, m, act), s, l), l)),
         LAMBDA l : RPAREN(s, l)),
         LAMBDA l : Opt(Then(COLON(s, l), LAMBDA m : Type(s, m, act)), l)),
         LAMBDA l : Opt(Group(Sentences(s, l, act)), l)),
         LAMBDA l : End("func", s, l))

\* Var = Keyword("var").suppress() + VName('varname') + COLON + Type('typename')
\*       + Optional(DCOLON + Expr('value')), VarNode(varname, typename, value=None)
Var(s, loc, act) ==
    Node_parse("Var", {"varname", "typename", "value"}, {"varname", "typename"},
        Then(Then(Then(Then(Suppress(Keyword("var", s, loc, TRUE)),
             LAMBDA l : Named(Name(s, l, TRUE, act), "varname")),
             LAMBDA l : COLON(s, l)),
             LAMBDA l : Named(Type(s, l, act), "typename")),
             LAMBDA l : Opt(Then(DCOLON(s, l),
                                 LAMBDA m : Named(Expr(s, m, act), "value")), l)), act)

\* Const = Keyword("const").suppress() + VName('varname') + COLON +
\*         Type('typename') + DCOLON + Expr('value'), ConstNode(varname, typename, value)
Const(s, loc, act) ==
    Node_parse("Const", {"varname", "typename", "value"},
               {"varname", "typename", "value"},
        Then(Then(Then(Then(Then(Suppress(Keyword("const", s, loc, TRUE)),
             LAMBDA l : Named(Name(s, l, TRUE, act), "varname")),
             LAMBDA l : COLON(s, l)),
             LAMBDA l : Named(Type(s, l, act), "typename")),
             LAMBDA l : DCOLON(s, l)),
             LAMBDA l : Named(Expr(s, l, act), "value")), act)

\* Alias = Keyword("alias").suppress() + Name('alias') + COLON + Type('typename')
Alias(s, loc, act) ==
    Node_parse("Alias", {"alias", "typename"}, {"alias", "typename"},
        Then(Then(Then(Suppress(Keyword("alias", s, loc, TRUE)),
             LAMBDA l : Named(Name(s, l, TRUE, act), "alias")),
             LAMBDA l : COLON(s, l)),
             LAMBDA l : Named(Type(s, l, act), "typename")), act)

\* EnumMember = ConstName('key') + Optional(DCOLON + Expr('value')),
\* the pair (r["key"], r.get("value"))
EnumMember(s, loc, act) ==
    LET r == Then(Named(Name(s, loc, TRUE, act), "key"), LAMBDA l :
                  Opt(Then(DCOLON(s, l), LAMBDA m : Named(Expr(s, m, act), "value")), l))
    IN  IF ~IsOk(r) \/ ~act THEN r
        ELSE Returns(r, PyTuple(<<Get(r, "key"), GetOrNone(r, "value")>>))

\* value + 1
PlusOne(v) ==
    CASE v.k = "int"   -> PyInt(v.v + 1)
      [] v.k = "float" -> PyFloat(v.num + v.den, v.den)
      [] v.k = "bool"  -> PyInt(IF v.v THEN 2 ELSE 1)

RECURSIVE EnumValues(_, _)
\* the loop of EnumNode.__init__: a member without a value takes current_value,
\* a member with one resets it; current_value is the member's value plus one
\* afterwards
EnumValues(member, current_value) ==
    IF member = <<>> THEN <<>>
    ELSE LET key == member[1].items[1]
             given == member[1].items[2]
             value == IF given = PyNone THEN current_value ELSE given
         IN  <<<<key, value>>>> \o EnumValues(Tail(member), PlusOne(value))

\* EnumNode.parse: EnumNode(name, member); "current_value += 1" raises
\* TypeError for a value that is no number
EnumNode_parse(r, act) ==
    IF ~IsOk(r) \/ ~act THEN r
    ELSE IF ~KeywordsFit(r, {"name", "member"}, {"name", "member"}) THEN AssertFalse(r)
    ELSE LET member == Get(r, "member").items
         IN  IF \E i \in 1..Len(member) :
                    /\ member[i].items[2] # PyNone
                    /\ member[i].items[2].k \notin {"int", "float", "bool"}
             THEN AssertFalse(r)
             ELSE Returns(r, [k |-> "Enum", name |-> Get(r, "name"),
                              member |-> EnumValues(member, PyInt(0))])

\* Enum = Keyword("enum").suppress() + EName('name') +
\*        OneOrMore(EnumMember)('member') + (Keyword("end") + Keyword("enum")).suppress()
Enum(s, loc, act) ==
    EnumNode_parse(
        Then(Then(Then(Suppress(Keyword("enum", s, loc, TRUE)),
             LAMBDA l : Named(Name(s, l, TRUE, act), "name")),
             LAMBDA l : NamedList(OneOrMore(LAMBDA m : EnumMember(s, m, act), l), "member")),
             LAMBDA l : End("enum", s, l)), act)

RECURSIVE Zip3(_, _, _)
\* zip(member, visibility, override) as ClassNode.Member objects (a member is
\* the token list of its definition: ClassMember saves its tokens as a list)
Zip3(member, visibility, override) ==
    IF member = <<>> \/ visibility = <<>> \/ override = <<>> THEN <<>>
    ELSE <<[member |-> member[1],
            visibility |-> IF Truthy(visibility[1]) THEN visibility[1].v ELSE "",
            override |-> override[1] # PyNone]>>
         \o Zip3(Tail(member), Tail(visibility), Tail(override))

\* ClassNode.__init__(name, parent=None, member=None, visibility=None, override=None)
ClassNode(name, parent, member, visibility, override) ==
    LET nones == [i \in 1..Len(member.items) |-> PyNone]
    IN  [k |-> "Class", name |-> name, parent |-> parent,
         members |-> IF ~Truthy(member) THEN <<>>
                     ELSE Zip3(member.items,
                               IF visibility = PyNone THEN nones ELSE visibility.items,
                               IF override = PyNone THEN nones ELSE override.items)]

ClassNode_parse(r, act) ==
    IF ~IsOk(r) \/ ~act THEN r
    ELSE IF ~KeywordsFit(r, {"name", "parent", "member", "visibility", "override"},
                         {"name"})
    THEN AssertFalse(r)
    ELSE Returns(r, ClassNode(Get(r, "name"), GetOrNone(r, "parent"),
                              GetAllOrNone(r, "member"), GetAllOrNone(r, "visibility"),
                              GetAllOrNone(r, "override")))

RECURSIVE Class(_, _, _)

\* ClassMember = ( Func | Var | Const | Alias | Class | Enum );
\* Definition is the same alternation
Definition(s, loc, act) ==
    OrElse(Func(s, loc, act),
    OrElse(Var(s, loc, act),
    OrElse(Const(s, loc, act),
    OrElse(Alias(s, loc, act),
    OrElse(Class(s, loc, act),
           Enum(s, loc, act))))))

\* Class << Keyword("class").suppress() + CName('name') +
\*   Optional(COLON + ClassName('parent')) +
\*   ZeroOrMore(Optional(oneOf("+ -")('visibility*')) +
\*              Optional(Literal("*")('override*')) + ClassMember('member*')) +
\*   (Keyword("end") + Keyword("class")).suppress(), ClassNode.parse
Class(s, loc, act) ==
    LET member(l) ==
            Then(Then(Opt(Named(oneOf({"+", "-"}, s, l, TRUE), "visibility"), l),
                 LAMBDA m : Opt(Named(Literal("*", s, m, TRUE), "override"), m)),
                 LAMBDA m : NamedList(Definition(s, m, act), "member"))
    IN  ClassNode_parse(
            Then(Then(Then(Then(Suppress(Keyword("class", s, loc, TRUE)),
                 LAMBDA l : Named(Name(s, l, TRUE, act), "name")),
                 LAMBDA l : Opt(Then(COLON(s, l), LAMBDA m :
                                     Named(ClassName(s, m, TRUE, act), "parent")), l)),
                 LAMBDA l : ZeroOrMore(member, l)),
                 LAMBDA l : End("class", s, l)), act)

\* Sentence = ( BlockStatement | SimpleSentence | Definition )
Sentence(s, loc, act) ==
    OrElse(BlockStatement(s, loc, act),
    OrElse(SimpleSentence(s, loc, act),
           Definition(s, loc, act)))

\* Sentences << ZeroOrMore(Sentence).ignore(Comment).  The ignored Comment is
\* skipped where an element starts with "{"; it skips nothing in a text without
\* "{", and the texts parsed here hold none.
Sentences(s, loc, act) == ZeroOrMore(LAMBDA l : Sentence(s, l, act), loc)

\* parse_stmt(text): Sentences.parseString(text, parseAll=True)
parse_stmt(s) ==
    LET r == ParseAll(Sentences(s, 0, TRUE), s)
    IN  Outcome(r, IF IsOk(r) THEN PyList(r.toks) ELSE PyNone)

\* parse_stmt returns to its caller, or raises
Return_parse_stmt ==
    /\ pc = "parse"
    /\ entry = "parse_stmt"
    /\ Cardinality(DOMAIN memo) = Cells(text)
    /\ result' = parse_stmt(text)
    /\ pc' = "done"
    /\ UNCHANGED <<text, entry, memo>>

(***************************************************************************)
(* Specifications.  Every run is one call of an entry point on one text;   *)
(* a specification chooses the texts it calls the entry point on.          *)
(***************************************************************************)
NextExpr == Descend \/ Return_parse_expr

NextStmt == Descend \/ Return_parse_stmt

Done == pc = "done"
Accepted == Done /\ result.st = "ok"

\* a leaf operand: the integer a digit string denotes, or a symbol spelled x
\* (between backquotes when the name went through a Combine)
IsLeaf(v, x) ==
    IF At(x, 0) \in DecDigit THEN v = PyInt(DigitsValue(x, 10, 0))
    ELSE v \in {SymbolNode(x), SymbolNode(Backquote \o x \o Backquote)}

\* a binary Op: operator op over exactly two operands, the leaves x and y
IsBinaryOf(v, op, x, y) ==
    /\ v.k = "Expr"
    /\ v.operator = SymbolNode(op)
    /\ Len(v.operands) = 2
    /\ IsLeaf(v.operands[1], x)
    /\ IsLeaf(v.operands[2], y)

(***************************************************************************)
(* Expressions with two or more binary operators                           *)
(***************************************************************************)
\* the binary levels as the claims list them, loosest first
ClaimLevels == << {"::", ":+", ":-", ":*", ":/", ":%", ":^", ":~"},
                  {"&", "|"},
                  {"=", "<>", "<", ">", "<=", ">="},
                  {"~"},
                  {"+", "-"},
                  {"*", "/", "%"} >>
Rank(op) == CHOOSE i \in 1..Len(ClaimLevels) : op \in ClaimLevels[i]
ClaimOps == UNION {ClaimLevels[i] : i \in 1..Len(ClaimLevels)}

\* how the three operands are spelled, and what separates the tokens
Spellings == { [x |-> "a", y |-> "b", z |-> "c", gap |-> " "],
               [x |-> "1", y |-> "2", z |-> "3", gap |-> ""] }

\* x op1 y op2 z with op1 and op2 from two different levels
PrecCases == {c \in [w : Spellings, op1 : ClaimOps, op2 : ClaimOps] :
                  Rank(c.op1) # Rank(c.op2)}
PrecText(c) ==
    c.w.x \o c.w.gap \o c.op1 \o c.w.gap \o c.w.y \o c.w.gap \o c.op2 \o c.w.gap \o c.w.z

\* the longest chain of operators of one level written
MaxChain == 3

\* the left-associative levels; the operands after a class check are class names
ChainLevels == ({ClaimLevels[i] : i \in 2..Len(ClaimLevels)}) \cup {{"@is", "@nis"}}
\* chains of 2..MaxChain operators of one level: any two operators of the
\* level, which the operators after them repeat in turn
ChainCases ==
    UNION { UNION { {c \in [1..n -> ops] : \A i \in 3..n : c[i] = c[i - 2]}
                    : n \in 2..MaxChain } : ops \in ChainLevels }
OperandAt(ops, i) ==
    IF i > 1 /\ ops[1] \in {"@is", "@nis"} THEN SubSeq("PQRSTUVW", i, i)
    ELSE SubSeq("pqrstuvw", i, i)

\* a class check is written between blanks, the other operators without
Gap(ops) == IF ops[1] \in {"@is", "@nis"} THEN " " ELSE ""

RECURSIVE ChainPrefix(_, _)
\* the chain up to and including its n-th operator's right operand
ChainPrefix(ops, n) ==
    IF n = 0 THEN OperandAt(ops, 1)
    ELSE ChainPrefix(ops, n - 1) \o Gap(ops) \o ops[n] \o Gap(ops) \o OperandAt(ops, n + 1)
ChainText(ops) == ChainPrefix(ops, Len(ops))

RECURSIVE IsLeftLeaning(_, _, _)
\* v is Op(ops[n], <the tree of the first n - 1 operators>, operand n + 1)
IsLeftLeaning(v, ops, n) ==
    IF n = 0 THEN IsLeaf(v, OperandAt(ops, 1))
    ELSE /\ v.k = "Expr"
         /\ v.operator = SymbolNode(ops[n])
         /\ Len(v.operands) = 2
         /\ IsLeftLeaning(v.operands[1], ops, n - 1)
         /\ IsLeaf(v.operands[2], OperandAt(ops, n + 1))

InitExpr ==
    \/ \E c \in PrecCases : Called("parse_expr", PrecText(c))
    \/ \E ops \in ChainCases : Called("parse_expr", ChainText(ops))

SpecExpr == InitExpr /\ [][NextExpr]_vars

\* C1: x op1 y op2 z with the operators from two different binary levels parses
\* to an Op whose root is the operator of the looser level, with the binary Op
\* of the tighter operator as the operand on that operator's side and the
\* remaining operand on the other side.
C1_Precedence ==
    Done => \A c \in PrecCases : text = PrecText(c) =>
        /\ result.st = "ok"
        /\ result.value.k = "Expr"
        /\ Len(result.value.operands) = 2
        /\ IF Rank(c.op1) < Rank(c.op2)
           THEN /\ result.value.operator = SymbolNode(c.op1)
                /\ IsLeaf(result.value.operands[1], c.w.x)
                /\ IsBinaryOf(result.value.operands[2], c.op2, c.w.y, c.w.z)
           ELSE /\ result.value.operator = SymbolNode(c.op2)
                /\ IsBinaryOf(result.value.operands[1], c.op1, c.w.x, c.w.y)
                /\ IsLeaf(result.value.operands[2], c.w.z)

\* a + b * c has been parsed to + over a and *(b, c)
C1_Witness ==
    /\ Accepted
    /\ text = "a + b * c"
    /\ result.value.operator = SymbolNode("+")
    /\ IsBinaryOf(result.value.operands[2], "*", "b", "c")

\* C2: a chain of n >= 2 operators of one left-associative level parses, and
\* to the left-leaning tree of binary Ops.
C2_LeftChains ==
    Done => \A ops \in ChainCases : text = ChainText(ops) =>
        /\ result.st = "ok"
        /\ IsLeftLeaning(result.value, ops, Len(ops))

\* the chain p*q*r has been parsed and the call raised ValueError
C2_Witness == Done /\ text = "p*q*r" /\ result.st = "ValueError"

(***************************************************************************)
(* Numeric literals handed to parse_expr                                   *)
(***************************************************************************)
\* the longest run of digits written in one part of a literal
MaxDigits == 3

RECURSIVE Join(_)
Join(q) == IF q = <<>> THEN "" ELSE q[1] \o Join(Tail(q))

\* the strings of 1..n characters over an alphabet
Strings(alphabet, n) == {Join(q) : q \in UNION {[1..k -> alphabet] : k \in 1..n}}

\* the digits and radix prefixes the literals are written with
SampleDigits == {"0", "1", "B", "Z"}
DecimalSample == {"0", "1", "9"}
SampleRadixes == {1, 2, 8, 10, 12, 16, 36, 37}

\* a radix prefix as written: one or two decimal digits
DecStr(n) == IF n < 10 THEN At(DigitChars, n)
             ELSE At(DigitChars, n \div 10) \o At(DigitChars, n % 10)

\* a literal as written: sign, body (form, radix, digits, fraction digits) and
\* exponent ("" where a part is not written)
Literal_(form, r, d, f, e, sign) ==
    [form |-> form, r |-> r, d |-> d, f |-> f, e |-> e, sign |-> sign]
LiteralText(n) ==
    n.sign
    \o (CASE n.form = "dec" -> "" [] n.form = "hex" -> "#" [] OTHER -> DecStr(n.r) \o "#")
    \o n.d
    \o (IF n.f = "" THEN "" ELSE "." \o n.f)
    \o n.e

\* digits only: decimal strings, # forms, r# forms
IntegerCases ==
    {Literal_("dec", 10, d, "", "", "") : d \in Strings(DecimalSample, MaxDigits)}
    \cup {Literal_("hex", 16, d, "", "", "") : d \in Strings(SampleDigits \cap HexUpper, MaxDigits)}
    \cup {Literal_("radix", r, d, "", "", "") :
              r \in SampleRadixes, d \in Strings(SampleDigits, MaxDigits)}

\* a fraction of one digit after an integer part of one digit
FractionCases ==
    {Literal_("dec", 10, d, f, "", "") : d, f \in DecimalSample}
    \cup {Literal_("hex", 16, d, f, "", "") : d, f \in SampleDigits \cap HexUpper}
    \cup {Literal_("radix", r, d, f, "", "") : r \in SampleRadixes, d, f \in SampleDigits}

\* the exponents written: e, an optional sign, one digit
Exponents == {"e" \o sg \o d : sg \in {"", "+", "-"}, d \in {"0", "1", "2"}}

\* signed bodies with and without an exponent
ExponentCases ==
    {Literal_(b.form, b.r, b.d, b.f, e, sg) :
        b \in {Literal_("dec", 10, "1", "", "", ""), Literal_("dec", 10, "10", "", "", ""),
               Literal_("dec", 10, "1", "5", "", ""), Literal_("hex", 16, "F", "", "", ""),
               Literal_("hex", 16, "F", "8", "", ""), Literal_("radix", 2, "1", "", "", ""),
               Literal_("radix", 2, "1", "1", "", "")},
        e \in Exponents \cup {""}, sg \in {"", "-"}}

Literals == IntegerCases \cup FractionCases \cup ExponentCases

\* # forms written with lowercase letters, and radix prefixes without digits
LowercaseDigits == {"1", "e", "f"}
LowercaseCases ==
    {"#" \o d : d \in {x \in Strings(LowercaseDigits, MaxDigits) :
                          \E i \in 0..(Len(x) - 1) : At(x, i) \in Lower}}
NoDigitCases == {DecStr(r) \o "#" : r \in SampleRadixes}

InitNum ==
    \/ \E n \in Literals : Called("parse_expr", LiteralText(n))
    \/ \E t \in LowercaseCases \cup NoDigitCases : Called("parse_expr", t)

SpecNum == InitNum /\ [][NextExpr]_vars

\* the value of a digit character: 0-9 are 0..9, A-Z are 10..35
DigitOf(c) == Find(DigitChars, c, 0)

RECURSIVE Denoted(_, _)
\* the integer a digit string denotes in base r, last digit first
Denoted(d, r) ==
    IF d = "" THEN 0
    ELSE Denoted(SubSeq(d, 1, Len(d) - 1), r) * r + DigitOf(At(d, Len(d) - 1))

\* every digit of d is a digit of base r
DigitsBelow(d, r) == \A i \in 0..(Len(d) - 1) : DigitOf(At(d, i)) < r

\* a radix prefix the explicit-radix form allows
RadixAllowed(r) == 2 <= r /\ r <= 36 /\ r \notin {10, 16}

\* C3: a literal without sign, fraction and exponent - a decimal digit string,
\* a # form over 0-9A-F, an r# form with an allowed radix and digits below it -
\* parses to the exact integer its digits denote in its base.
C3_IntegerValue ==
    Done => \A n \in IntegerCases :
        (text = LiteralText(n) /\ (n.form = "radix" => RadixAllowed(n.r))
            /\ DigitsBelow(n.d, n.r))
        => result = [st |-> "ok", value |-> PyInt(Denoted(n.d, n.r))]

\* 12#0B1 has been parsed to the integer 133
C3_Witness == Accepted /\ text = "12#0B1" /\ result.value = PyInt(133)

\* C4: an explicit-radix literal r#digits[.digits] fails with
\* ParseFatalException exactly when r < 2, r > 36, r is 10 or 16, or a digit of
\* either part is not below r; the exception is what parse_expr raises.
C4_FatalRadix ==
    Done => \A n \in IntegerCases \cup FractionCases :
        (text = LiteralText(n) /\ n.form = "radix")
        => (result.st = "ParseFatalException"
               <=> (~RadixAllowed(n.r) \/ ~DigitsBelow(n.d, n.r) \/ ~DigitsBelow(n.f, n.r)))

\* 2#0B1, whose digit B is not below 2, has been parsed to the integer 1
C4_Witness == Accepted /\ text = "2#0B1" /\ result.value = PyInt(1)

ExponentShape(d) ==
    /\ At(d, 0) \in DecDigit
    /\ At(d, Len(d) - 1) \in DecDigit
    /\ \A i \in 0..(Len(d) - 1) :
           \/ At(d, i) \in DecDigit
           \/ At(d, i) = "e" /\ At(d, i + 1) # "e"

C6_IntegerOrReal ==
    Accepted => \A n \in Literals : text = LiteralText(n) =>
        (result.value.k = "int" <=> (n.f = "" /\ n.e = ""))

\* 1e0, written with an exponent, has been parsed to the integer 1
C6_Witness == Accepted /\ text = "1e0" /\ result.value = PyInt(1)

(***************************************************************************)
(* Statements handed to parse_stmt                                         *)
(***************************************************************************)
\* the most elif clauses written in an if statement
MaxElif == 2
\* the most case clauses written in a switch statement
MaxCases == 2
\* the most members written in an enum definition
MaxMembers == 3

\* a statement is written with or without a block name
BlockNames == {"", "b"}
NamePart(name) == IF name = "" THEN "" ELSE " " \o name

\* the body of clause k, when it has one, is the sentence "do k"
BodyText(has, k) == IF has THEN " do " \o DecStr(k) ELSE ""
DoOf(k) == [k |-> "Do", args |-> [expr |-> PyInt(k)]]
BodyOf(has, k) == IF has THEN <<DoOf(k)>> ELSE <<>>

\* an else or a default is not written, written without a body, or written
\* with the body "do 9"
TailText(kw, how) ==
    CASE how = "none"  -> ""
      [] how = "empty" -> " " \o kw
      [] how = "body"  -> " " \o kw \o BodyText(TRUE, 9)
TailBody(how) == BodyOf(how = "body", 9)

\* if (1) [do 1] { elif (i+1) [do i+1] } [else [do 9]] end if:
\* n elif clauses, bodies = the clauses written with a body (0 is the then
\* clause)
IfCases ==
    {c \in [n : 0..MaxElif, bodies : SUBSET (0..MaxElif),
            else : {"none", "empty", "body"}] : c.bodies \subseteq 0..c.n}

RECURSIVE ElifText(_, _)
ElifText(c, i) ==
    IF i > c.n THEN ""
    ELSE " elif(" \o DecStr(i + 1) \o ")" \o BodyText(i \in c.bodies, i + 1)
         \o ElifText(c, i + 1)

IfText(c) ==
    "if(1)" \o BodyText(0 \in c.bodies, 1) \o ElifText(c, 1)
    \o TailText("else", c.else) \o " end if"

\* an else, then an elif or a second else, inside one if ... end if
MisorderedIfs ==
    {"if(1)" \o before \o " else" \o BodyText(b1, 1) \o after \o BodyText(b2, 2) \o " end if" :
        before \in {"", " elif(2)"}, after \in {" elif(3)", " else"}, b1, b2 \in BOOLEAN}

\* switch (1) { case i [do i] } [default [do 9]] end switch
SwitchCases ==
    [n : 0..MaxCases, bodies : BOOLEAN, default : {"none", "empty", "body"}]

RECURSIVE CaseText(_, _)
CaseText(c, i) ==
    IF i > c.n THEN ""
    ELSE " case " \o DecStr(i) \o BodyText(c.bodies, i) \o CaseText(c, i + 1)

SwitchText(c) ==
    "switch(1)" \o CaseText(c, 1)
    \o TailText("default", c.default) \o " end switch"

\* a default, then a case or a second default
MisorderedSwitches ==
    {"switch(1) default" \o after \o " end switch" :
        after \in {" case 1", " default", " case 1 do 1"}}

\* the eight block statements, each with the least its grammar asks for
BlockKeywords == {"if", "switch", "while", "for", "foreach", "try", "ifdef", "block"}
BlockArgs(kw) ==
    CASE kw \in {"if", "while", "foreach"} -> "(1)"
      [] kw = "switch" -> "(1) case 1"
      [] kw = "for"    -> "(1,2)"
      [] kw = "try"    -> "()"
      [] kw = "ifdef"  -> "(debug)"
      [] kw = "block"  -> ""
BlockKind(kw) ==
    CASE kw = "if" -> "If" [] kw = "switch" -> "Switch" [] kw = "while" -> "While"
      [] kw = "for" -> "For" [] kw = "foreach" -> "Foreach" [] kw = "try" -> "Try"
      [] kw = "ifdef" -> "Ifdef" [] kw = "block" -> "Block"
BlockCases == [kw : BlockKeywords, name : BlockNames, body : BOOLEAN]
BlockText(c) ==
    c.kw \o NamePart(c.name) \o BlockArgs(c.kw) \o BodyText(c.body, 1) \o " end " \o c.kw

\* enum E member ... end enum; member i is a key, with or without "::N"
KeyChoices(i) == IF i = 1 THEN {"A"} ELSE {At("ABCDEFGH", i - 1), "e" \o DecStr(i)}
ValueChoices(i) == {-1, 2 * i + 3}
EnumCases ==
    UNION {{m \in [1..n -> [key : UNION {KeyChoices(i) : i \in 1..n},
                            value : UNION {ValueChoices(i) : i \in 1..n}]] :
               \A i \in 1..n : m[i].key \in KeyChoices(i) /\ m[i].value \in ValueChoices(i)}
           : n \in 1..MaxMembers}

RECURSIVE MemberText(_, _)
MemberText(m, i) ==
    IF i > Len(m) THEN ""
    ELSE " " \o m[i].key \o (IF m[i].value < 0 THEN "" ELSE "::" \o DecStr(m[i].value))
         \o MemberText(m, i + 1)
EnumText(m) == "enum E" \o MemberText(m, 1) \o " end enum"

StmtTexts ==
    {IfText(c) : c \in IfCases} \cup MisorderedIfs
    \cup {SwitchText(c) : c \in SwitchCases} \cup MisorderedSwitches
    \cup {BlockText(c) : c \in BlockCases}
    \cup {EnumText(m) : m \in EnumCases}

InitStmt == \E t \in StmtTexts : Called("parse_stmt", t)

SpecStmt == InitStmt /\ [][NextStmt]_vars

\* parse_stmt has returned one node of the given kind
OneNode(kind) ==
    /\ Accepted
    /\ Len(result.value.items) = 1
    /\ result.value.items[1].k = kind
TheNode == result.value.items[1]

\* C7: an accepted if statement yields an If node whose clauses are the then
\* clause with its condition, one clause per elif in textual order with its
\* own condition and body, and at most one else clause (no condition), last;
\* an elif or a second else after an else is rejected with ParseException.
C7_IfClauses ==
    /\ Accepted => \A c \in IfCases : text = IfText(c) =>
          /\ OneNode("If")
          /\ LET clauses == TheNode.clauses
             IN  /\ Len(clauses) >= c.n + 1
                 /\ \A i \in 0..c.n :
                        clauses[i + 1] = Clause(PyInt(i + 1), BodyOf(i \in c.bodies, i + 1))
                 /\ \/ Len(clauses) = c.n + 1 /\ c.else # "body"
                    \/ /\ Len(clauses) = c.n + 2
                       /\ c.else # "none"
                       /\ clauses[c.n + 2] = Clause(PyNone, TailBody(c.else))
    /\ Done /\ text \in MisorderedIfs => result.st = "ParseException"

\* an if with two elif clauses and an else has been parsed to four clauses
C7_Witness ==
    /\ OneNode("If")
    /\ text = "if(1) do 1 elif(2) elif(3) do 3 else do 9 end if"
    /\ Len(TheNode.clauses) = 4

\* the entries a switch is written with: its cases, then its default
SwitchEntries(c) ==
    [i \in 1..c.n |->
        [value |-> [k |-> "Value", range |-> <<PyTuple(<<PyInt(i), PyNone>>)>>],
         body |-> BodyOf(c.bodies, i)]]
    \o (IF c.default = "none" THEN <<>>
        ELSE <<[value |-> PyNone, body |-> TailBody(c.default)]>>)

\* C8: a switch written with n >= 0 case clauses and then an optional default
\* is accepted, and its node holds the n case entries in textual order, then
\* the default entry (no value list) if one is written; an accepted switch has
\* no entry without a value list except in last place.
C8_SwitchEntries ==
    Done =>
        /\ \A c \in SwitchCases : text = SwitchText(c) =>
               OneNode("Switch") /\ TheNode.case = SwitchEntries(c)
        /\ OneNode("Switch") =>
               \A i \in 1..Len(TheNode.case) :
                   TheNode.case[i].value = PyNone => i = Len(TheNode.case)

\* parse_stmt has raised AssertionError on a switch without case and default
C8_Witness == Done /\ text = "switch(1) end switch" /\ result.st = "AssertionError"

\* the block name a node holds, None when it holds none
BlockNameOf(node) ==
    IF node.k \in {"If", "Switch"} THEN node.block_name
    ELSE IF "block_name" \in DOMAIN node.args THEN node.args.block_name
    ELSE PyNone

\* C9: each of the eight block statements is accepted with a block name after
\* its keyword, which is then the block_name of its node, and without one,
\* its node then having no block_name.
C9_BlockNames ==
    Done => \A c \in BlockCases : text = BlockText(c) =>
        /\ OneNode(BlockKind(c.kw))
        /\ BlockNameOf(TheNode) = IF c.name = "" THEN PyNone ELSE SymbolNode(c.name)

\* parse_stmt has raised AssertionError on a while with a block name
C9_Witness == Done /\ text = "while b(1) end while" /\ result.st = "AssertionError"

RECURSIVE Counted(_, _, _)
\* the values of members i.. by the running counter
Counted(m, i, counter) ==
    IF i > Len(m) THEN <<>>
    ELSE LET value == IF m[i].value < 0 THEN counter ELSE m[i].value
         IN  <<<<SymbolNode(m[i].key), PyInt(value)>>>> \o Counted(m, i + 1, value + 1)

\* C10: an enum definition is parsed to a node that lists its members in
\* textual order, each with the value of a counter that starts at 0: a member
\* with ::N has the value N and sets the counter to N+1, a member without has
\* the counter's value and increments it.
C10_EnumCounter ==
    Done => \A m \in EnumCases : text = EnumText(m) =>
        OneNode("Enum") /\ TheNode.member = Counted(m, 1, 0)

\* enum E A::5 e2 end enum has been parsed to the single member A = 500.0
C10_Witness ==
    /\ OneNode("Enum")
    /\ text = "enum E A::5 e2 end enum"
    /\ TheNode.member = <<<<SymbolNode("A"), PyFloat(500, 1)>>>>

(***************************************************************************)
(* Enum and class definitions handed to parse_stmt                         *)
(***************************************************************************)
\* the most members written in an enum whose values are given in any order
MaxValued == 2
\* the most member lines written in a class
MaxLines == 2

\* enum E member ... end enum, member i with no value (-1) or with ::0 or ::3
ValuedCases == UNION {[1..n -> {-1, 0, 3}] : n \in 1..MaxValued}
ValuedMembers(vs) == [i \in 1..Len(vs) |-> [key |-> At("ABCDEFGH", i - 1), value |-> vs[i]]]
ValuedText(vs) == EnumText(ValuedMembers(vs))

\* what is written before the definition of a member line
LineMarks == {"", "+", "*", "-*"}
\* class C { marks var <i-th letter>:int } end class
ClassCases == UNION {[1..n -> LineMarks] : n \in 0..MaxLines}

RECURSIVE LinesText(_, _)
LinesText(c, i) ==
    IF i > Len(c) THEN ""
    ELSE " " \o c[i] \o "var " \o At("abcdefgh", i - 1) \o ":int" \o LinesText(c, i + 1)
ClassText(c) == "class C" \o LinesText(c, 1) \o " end class"

\* the most dimensions an array type is written with
MaxDims == 2

\* type expressions by production, over a few item types
ItemTypes == {"int", "bool", "C"}
TypeCases ==
    [prod : {"list", "stack", "queue"}, item : ItemTypes]
    \cup [prod : {"dict"}, key : ItemTypes, val : ItemTypes]
    \cup [prod : {"func"}, arg : ItemTypes, ret : ItemTypes]
    \cup [prod : {"array"}, dims : 1..MaxDims, size : {"", "2"}, item : ItemTypes]
RECURSIVE Dims(_, _)
Dims(size, n) == IF n = 0 THEN "" ELSE "[" \o size \o "]" \o Dims(size, n - 1)
TypeText(c) ==
    CASE c.prod = "dict"  -> "dict<" \o c.key \o "," \o c.val \o ">"
      [] c.prod = "func"  -> "func<(" \o c.arg \o "):" \o c.ret \o ">"
      [] c.prod = "array" -> Dims(c.size, c.dims) \o c.item
      [] OTHER            -> c.prod \o "<" \o c.item \o ">"
\* the node class of the production the leading token names
TypeKind(c) ==
    CASE c.prod = "dict"  -> "DictType"
      [] c.prod = "func"  -> "FuncType"
      [] c.prod = "array" -> "ArrayType"
      [] OTHER            -> "CollectionType"
\* a variable declared with the type
DeclText(c) == "var v:" \o TypeText(c)

InitDefs ==
    \/ \E vs \in ValuedCases : Called("parse_stmt", ValuedText(vs))
    \/ \E c \in ClassCases : Called("parse_stmt", ClassText(c))
    \/ \E c \in TypeCases : Called("parse_stmt", DeclText(c))

SpecDefs == InitDefs /\ [][NextStmt]_vars

\* C11: in an Enum node the parser produced, the value of each member is
\* greater than the value of the member before it.
C11_EnumIncreasing ==
    Done /\ OneNode("Enum") =>
        \A i \in 2..Len(TheNode.member) :
            TheNode.member[i][2].v > TheNode.member[i - 1][2].v

\* enum E A::3 B::0 end enum has been parsed to the members A = 3, B = 0
C11_Witness ==
    /\ OneNode("Enum")
    /\ text = "enum E A::3 B::0 end enum"
    /\ TheNode.member = <<<<SymbolNode("A"), PyInt(3)>>, <<SymbolNode("B"), PyInt(0)>>>>

\* the variable a member line defines
VarOf(i) ==
    [k |-> "Var", args |-> [varname |-> SymbolNode(At("abcdefgh", i - 1)),
                            typename |-> SymbolNode("int"), value |-> PyNone]]

\* C12: a class written with n member lines is parsed to a Class node with n
\* members in textual order, member i with the visibility ("+", "-" or "")
\* and the override flag written on line i.
C12_ClassMembers ==
    Done => \A c \in ClassCases : text = ClassText(c) =>
        /\ OneNode("Class")
        /\ Len(TheNode.members) = Len(c)
        /\ \A i \in 1..Len(c) :
               /\ TheNode.members[i].member = PyList(<<VarOf(i)>>)
               /\ TheNode.members[i].visibility =
                      (IF c[i] = "+" THEN "+" ELSE IF c[i] = "-*" THEN "-" ELSE "")
               /\ TheNode.members[i].override = (c[i] \in {"*", "-*"})

\* a class of two member lines, the second marked "+", has been parsed to the
\* single member a, with the visibility "+"
C12_Witness ==
    /\ OneNode("Class")
    /\ text = "class C var a:int +var b:int end class"
    /\ Len(TheNode.members) = 1
    /\ TheNode.members[1].member = PyList(<<VarOf(1)>>)
    /\ TheNode.members[1].visibility = "+"

\* C15: a type that begins with list<, stack<, queue<, dict< or func< is parsed
\* by the production of that leading token through its closing >, never as a
\* primitive or a named type, and one that begins with [ as an array type.
C15_TypeByLeadingToken ==
    Done => \A c \in TypeCases : text = DeclText(c) =>
        /\ memo[<<"Type", 6>>][TRUE].st = "ok"
        /\ memo[<<"Type", 6>>][TRUE].loc = Len(text)
        /\ memo[<<"Type", 6>>][TRUE].toks[1].k = TypeKind(c)
        /\ OneNode("Var")
        /\ TheNode.args.typename.k = TypeKind(c)
C15_Witness ==
    /\ Done
    /\ text = "var v:list<int>"
    /\ memo[<<"Type", 6>>][TRUE].st = "ok"
    /\ memo[<<"Type", 6>>][TRUE].toks = <<SymbolNode("^list^")>>
    /\ result.st = "ParseException"

(***************************************************************************)
(* Expression atoms handed to parse_expr                                   *)
(***************************************************************************)
\* the most characters written after the stem of a word
MaxTail == 2

\* how a word starts: nothing, a letter, an underscore, a digit, or a keyword
Stems == {"", "a", "Z", "_", "1", "if", "do", "end", "for", "var", "true", "ifdef"}
TailChars == {"x", "f", "1", "_"}
IdentCases == [stem : Stems, tail : UNION {[1..n -> TailChars] : n \in 0..MaxTail}]

RECURSIVE Spell(_, _)
\* the first n characters of a sequence of characters, as a string
Spell(cs, n) == IF n = 0 THEN "" ELSE Spell(cs, n - 1) \o cs[n]
IdentText(c) == c.stem \o Spell(c.tail, Len(c.tail))

\* w matches [A-Za-z_][0-9A-Za-z_]*
IsIdentifier(w) ==
    /\ Len(w) >= 1
    /\ At(w, 0) \in NameStart
    /\ \A i \in 1..(Len(w) - 1) : At(w, i) \in NameChar

\* qualified names: [source@]Class[.Class].member and [source@]Enum#Member
QualCases == [src : {"", "mod@", "Mod@"}, cls : {"Cls", "A.B", "EColor", "Klass"},
              sep : {".", "#"}, member : {"member", "Red", "m"}]
QualText(c) == c.src \o c.cls \o c.sep \o c.member

\* cond ?(t, f): alone or as the right side of an assignment, with and without
\* a blank in front of "?" and between "?" and "("
TernaryCases == [assign : BOOLEAN, cond : {"b", "1", "a+b"}, t : {"2", "x"},
                 f : {"3", "y"}, lead : {"", " "}, gap : {"", " "}]
TernaryText(c) ==
    (IF c.assign THEN "a :: " ELSE "") \o c.cond \o c.lead \o "?" \o c.gap
        \o "(" \o c.t \o ", " \o c.f \o ")"
\* v is the operand written x
OperandIs(v, x) == IF x = "a+b" THEN IsBinaryOf(v, "+", "a", "b") ELSE IsLeaf(v, x)
\* v is the ternary Op of the case
IsTernaryOf(v, c) ==
    /\ v.k = "Expr"
    /\ v.operator = ternary_op
    /\ Len(v.operands) = 3
    /\ OperandIs(v.operands[1], c.cond)
    /\ OperandIs(v.operands[2], c.t)
    /\ OperandIs(v.operands[3], c.f)

\* a sign or "!" in front of an operand: numeric literals and other operands
NumericOperands == {"3", "0", "2.5", "#FF"}
OtherOperands == {"a", "(3)", "true"}
SignCases == [sign : {"+", "-", "!"}, gap : {"", " "},
              operand : NumericOperands \cup OtherOperands]
SignText(c) == c.sign \o c.gap \o c.operand
\* the value an operand written alone denotes
OperandValue(x) ==
    CASE x = "3"    -> PyInt(3)
      [] x = "0"    -> PyInt(0)
      [] x = "2.5"  -> PyFloat(25, 10)
      [] x = "#FF"  -> PyInt(255)
      [] x = "a"    -> SymbolNode("^a^")
      [] x = "(3)"  -> PyInt(3)
      [] x = "true" -> PyBool(TRUE)
\* the number with the sign applied
Signed(sign, v) ==
    IF sign = "+" THEN v
    ELSE IF v.k = "int" THEN PyInt(0 - v.v) ELSE PyFloat(0 - v.num, v.den)

InitAtom ==
    \/ \E c \in IdentCases : Called("parse_expr", IdentText(c))
    \/ \E c \in QualCases : Called("parse_expr", QualText(c))
    \/ \E c \in TernaryCases : Called("parse_expr", TernaryText(c))
    \/ \E c \in SignCases : Called("parse_expr", SignText(c))

SpecAtom == InitAtom /\ [][NextExpr]_vars

\* C13: a word is accepted as an identifier (a symbol naming it comes back)
\* if and only if it matches [A-Za-z_][0-9A-Za-z_]* and is not one of the
\* keywords; a keyword followed by further identifier characters is accepted.
C13_Identifiers ==
    Done => \A c \in IdentCases : text = IdentText(c) =>
        (result.st = "ok" /\ result.value.k = "Symbol")
            <=> (IsIdentifier(text) /\ text \notin KEYWORDS)
C13_Witness ==
    /\ Done
    /\ text = "ifx"
    /\ IsIdentifier(text) /\ text \notin KEYWORDS
    /\ result.st = "ParseException"

\* C14: a qualified name (Cls.member, A.B.member, mod@Cls.member, Enum#Member)
\* written as an expression is accepted and comes back as one symbol whose
\* text is the name as written.
C14_QualifiedNames ==
    Done => \A c \in QualCases : text = QualText(c) =>
        /\ result.st = "ok"
        /\ result.value = SymbolNode(text)
C14_Witness ==
    /\ Done
    /\ text = "Cls.member"
    /\ text \in {QualText(c) : c \in QualCases}
    /\ result.st = "ParseException"

(***************************************************************************)
(* Programs handed to parse_stmt                                           *)
(***************************************************************************)
\* the most sentences a program is written with
MaxSentences == 2

DoNode(expr) == [k |-> "Do", args |-> [expr |-> expr]]
BreakNode == [k |-> "Break", args |-> [block_name |-> PyNone]]

\* two simple sentences and the node each one is
SimpleKinds == {"do a", "break"}
NodeOf(x) == IF x = "break" THEN BreakNode ELSE DoNode(SymbolNode("^a^"))

\* comments: plain, nested with a brace in a character literal, the example
\* of parser.py with a brace in a string literal, and one whose text holds an
\* apostrophe that starts no literal
CommentCases == {"{c}", "{a{b}'{'}", "{ \" }\" {  } }", "{it's}"}

\* a program with at most one comment, written in front of sentence at + 1
\* (after the last sentence when at is their number)
Commented ==
    {p \in [sents : UNION {[1..n -> SimpleKinds] : n \in 0..MaxSentences},
            comment : CommentCases \cup {""}, at : 0..MaxSentences] :
        p.at <= Len(p.sents) /\ (p.comment = "" => p.at = 0)}
RECURSIVE CommentedPrefix(_, _)
\* the program up to its n-th sentence
CommentedPrefix(p, n) ==
    IF n = 0 THEN ""
    ELSE CommentedPrefix(p, n - 1) \o (IF n > 1 THEN " " ELSE "")
             \o (IF p.at = n - 1 THEN p.comment ELSE "") \o p.sents[n]
CommentedText(p) ==
    CommentedPrefix(p, Len(p.sents)) \o (IF p.at = Len(p.sents) THEN p.comment ELSE "")
\* where the comment starts
CommentAt(p) ==
    IF p.at = 0 THEN 0
    ELSE Len(CommentedPrefix(p, p.at)) + (IF p.at < Len(p.sents) THEN 1 ELSE 0)

\* sentences of each sort: block statement, simple statements, definitions
SentenceKinds == {"if(1) end if", "do a", "import x", "var v:int", "func f() end func"}
ProgCases == UNION {[1..n -> SentenceKinds] : n \in 0..MaxSentences}
RECURSIVE ProgPrefix(_, _)
ProgPrefix(p, n) ==
    IF n = 0 THEN ""
    ELSE ProgPrefix(p, n - 1) \o (IF n > 1 THEN " " ELSE "") \o p[n]
ProgText(p) == ProgPrefix(p, Len(p))

\* a sentence, or nothing, and text after it that starts no sentence
LeftoverCases == [sent : SentenceKinds \cup {""}, junk : {"end", ")", "1"}]
LeftoverText(c) == c.sent \o " " \o c.junk

\* texts on which building a node goes wrong
FaultCases == {"switch(1) end switch", "do a*b*c", "while b(1) end while"}

InitProgram ==
    \/ \E p \in Commented : Called("parse_stmt", CommentedText(p))
    \/ \E p \in ProgCases : Called("parse_stmt", ProgText(p))
    \/ \E c \in LeftoverCases : Called("parse_stmt", LeftoverText(c))
    \/ \E s \in FaultCases : Called("parse_stmt", s)
    \/ \E s \in {"a*b*c", "a ?(1)", "1+"} : Called("parse_expr", s)

NextProgram == Descend \/ Return_parse_expr \/ Return_parse_stmt

SpecProgram == InitProgram /\ [][NextProgram]_vars

\* C16: a comment runs from its { to the matching }, nested braces balanced
\* and braces inside a string or character literal not counted; a program
\* with such a comment in front of a sentence or after the last one parses to
\* the nodes of its sentences, as the program without the comment does.
C16_CommentsIgnored ==
    Done => \A p \in Commented : text = CommentedText(p) =>
        /\ p.comment # "" =>
               /\ memo[<<"Comment", CommentAt(p)>>][TRUE].st = "ok"
               /\ memo[<<"Comment", CommentAt(p)>>][TRUE].loc = CommentAt(p) + Len(p.comment)
        /\ result = [st |-> "ok",
                     value |-> PyList([i \in 1..Len(p.sents) |-> NodeOf(p.sents[i])])]
C16_Witness ==
    /\ Done
    /\ text = "do a {it's}break"
    /\ text \in {CommentedText(p) : p \in Commented}
    /\ memo[<<"Comment", 5>>][TRUE].st = "ParseException"
    /\ result.st = "ParseException"

\* C17: every call of parse_expr or parse_stmt returns a whole tree or fails
\* with one ParseException or ParseFatalException; no assertion failure and
\* no unpacking or type error raised while a node is built reaches the caller.
C17_OnlyParseErrors ==
    Done => result.st \in {"ok", "ParseException", "ParseFatalException"}
C17_Witness ==
    /\ Done
    /\ \/ entry = "parse_stmt" /\ text = "switch(1) end switch"
             /\ result.st = "AssertionError"
       \/ entry = "parse_expr" /\ text = "a*b*c" /\ result.st = "ValueError"

\* the node class a sentence of the kind is built as
KindOf(x) ==
    CASE x = "if(1) end if"      -> "If"
      [] x = "do a"              -> "Do"
      [] x = "import x"          -> "Import"
      [] x = "var v:int"         -> "Var"
      [] x = "func f() end func" -> "Func"

\* C18: an accepted program of k >= 0 sentences (block statements, simple
\* statements, import among them, and definitions, func among them) comes
\* back as exactly k nodes, one per sentence in the order written, the empty
\* text as the empty sequence; the call fails when text is left unconsumed.
C18_OneNodePerSentence ==
    Done =>
        /\ \A p \in ProgCases : text = ProgText(p) /\ result.st = "ok" =>
               /\ Len(result.value.items) = Len(p)
               /\ \A i \in 1..Len(p) : result.value.items[i].k = KindOf(p[i])
        /\ \A c \in LeftoverCases : text = LeftoverText(c) => result.st # "ok"
C18_Witness ==
    /\ Done
    /\ text = "func f() end func"
    /\ result = [st |-> "ok",
                 value |-> PyList(<<SymbolNode("f"), PyList(<<>>)>>)]

\* C19: cond ?(t, f) with nothing between "?" and "(" parses to one ternary Op
\* with the three operands cond, t, f in that order, and a :: cond ?(t, f) to
\* an assignment whose right operand is that ternary; with whitespace between
\* "?" and "(" the text is rejected with ParseException.
C19_Ternary ==
    Done => \A c \in TernaryCases : text = TernaryText(c) =>
        IF c.gap # "" THEN result.st = "ParseException"
        ELSE /\ result.st = "ok"
             /\ IF c.assign
                THEN /\ result.value.k = "Expr"
                     /\ result.value.operator = SymbolNode("::")
                     /\ Len(result.value.operands) = 2
                     /\ IsLeaf(result.value.operands[1], "a")
                     /\ IsTernaryOf(result.value.operands[2], c)
                ELSE IsTernaryOf(result.value, c)
C19_Witness ==
    /\ Done
    /\ text = "a :: b ?(2, 3)"
    /\ result.st = "ok"
    /\ result.value.operator = SymbolNode("::")
    /\ result.value.operands[2] =
           ExprNode(ternary_op, <<SymbolNode("^b^"), PyInt(2), PyInt(3)>>)

\* C20: "+" or "-" in front of a numeric literal is part of the literal: the
\* result is the number itself, negated for "-", and no Op; "+", "-" or "!"
\* in front of another operand gives the unary Op of the sign over the
\* operand, and no unary Op comes from "!" in front of a number.
C20_SignedLiterals ==
    Done => \A c \in SignCases : text = SignText(c) =>
        IF c.operand \in NumericOperands
        THEN IF c.sign = "!" THEN ~(result.st = "ok" /\ result.value.k = "Expr")
             ELSE result = [st |-> "ok", value |-> Signed(c.sign, OperandValue(c.operand))]
        ELSE result = [st |-> "ok",
                       value |-> ExprNode(SymbolNode(c.sign), <<OperandValue(c.operand)>>)]
C20_Witness ==
    /\ Done
    /\ text \in {"-3", "!a"}
    /\ text = "-3" => result = [st |-> "ok", value |-> PyInt(0 - 3)]
    /\ text = "!a" => result = [st |-> "ok",
                                value |-> ExprNode(SymbolNode("!"), <<SymbolNode("^a^")>>)]

(***************************************************************************)
(* String and character literals handed to parse_expr                      *)
(***************************************************************************)
MaxBody == 3

BodyChars == {"a", "n", "r", "\\", "\"", "'", "\n"}

RECURSIVE Bodies(_)
\* the literal bodies of up to n characters
Bodies(n) ==
    IF n = 0 THEN {""}
    ELSE LET shorter == Bodies(n - 1)
         IN  shorter \cup {b \o ch : b \in shorter, ch \in BodyChars}

LitCases == [quote : {"\"", "'"}, body : Bodies(MaxBody)]

LitText(c) == c.quote \o c.body \o c.quote

RECURSIVE Replaced(_)
\* the value the escape rule gives a body: a backslash and the character x
\* after it become LF for n, CR for r and x for every other x
Replaced(b) ==
    IF b = "" THEN ""
    ELSE IF At(b, 0) = "\\" /\ Len(b) >= 2
    THEN LET x == At(b, 1)
         IN  (CASE x = "n" -> "\n" [] x = "r" -> "\r" [] OTHER -> x)
                 \o Replaced(SubSeq(b, 3, Len(b)))
    ELSE At(b, 0) \o Replaced(SubSeq(b, 2, Len(b)))

InitLit == \E c \in LitCases : Called("parse_expr", LitText(c))

SpecLit == InitLit /\ [][NextExpr]_vars

\* C21: the value of a string or character literal is its body with each
\* backslash and the character x after it replaced, left to right, by LF for
\* n, CR for r and x itself for every other x (so a backslash, "'" and '"'
\* stand for themselves), every other character copied; a character
\* literal's value has length exactly 1.
C21_Escapes ==
    Done => \A c \in LitCases :
        text = LitText(c) /\ result.st = "ok" /\ result.value.k = "str" =>
            /\ result.value.v = Replaced(c.body)
            /\ c.quote = "'" => Len(result.value.v) = 1
\* a string literal with a backslash in front of a line feed keeps both
C21_Witness ==
    Done /\ text = "\"a\\\n\"" /\ result = [st |-> "ok", value |-> PyStr("a\\\n")]

(***************************************************************************)
(* The else keyword with no sentences after it                             *)
(***************************************************************************)
RECURSIVE WrittenClauses(_, _)
\* the then clause (i = 0) and the elif clauses of an if of IfCases, from
\* clause i on, each with the body written for it or an empty one
WrittenClauses(c, i) ==
    IF i > c.n THEN <<>>
    ELSE <<Clause(PyInt(i + 1), BodyOf(i \in c.bodies, i + 1))>> \o WrittenClauses(c, i + 1)

\* C22: an else keyword with no sentences after it adds no clause: the If
\* node of "... else end if" has the clause sequence of the same statement
\* without the else keyword, namely the then clause and the elif clauses,
\* each kept even when its body is empty; only an else with sentences adds
\* a clause.
C22_EmptyElseDropped ==
    Done => \A c \in IfCases : text = IfText(c) =>
        /\ OneNode("If")
        /\ TheNode.clauses =
               WrittenClauses(c, 0)
               \o (IF c.else = "body" THEN <<Clause(PyNone, TailBody("body"))>> ELSE <<>>)
\* an if with an empty then body, an empty elif body and an empty else has
\* been parsed to the two clauses of the then and the elif
C22_Witness ==
    /\ OneNode("If")
    /\ text = "if(1) elif(2) else end if"
    /\ TheNode.clauses = <<Clause(PyInt(1), <<>>), Clause(PyInt(2), <<>>)>>

====
